---- MODULE Spec2Model ----
(***************************************************************************)
(* A model of bobo (src/bobo/src/bobo.py): route compilation, handler      *)
(* nodes, the module scan that builds an Application's handler list, the   *)
(* Application's search over that list, the ordering-key counter and the   *)
(* post/query parameter binder.                                            *)
(*                                                                         *)
(* Representation.  A Python string that the code inspects character by    *)
(* character (a route, a path, a placeholder value) is a sequence of       *)
(* one-character strings; a placeholder *name* is a TLA+ string.  Python's *)
(* None for a method set is the key NONE, exactly as _scan_module turns    *)
(* it into the tuple (None,).  HTTP methods are strings; sorted() over     *)
(* them is modelled by their alphabetical rank.                            *)
(***************************************************************************)
EXTENDS Integers, Sequences, FiniteSets, TLC

\* ------------------------------------------------------------------ text

\* [a-zA-Z] and \w of route_re, over the characters the model uses.
Alpha == {"a", "b", "c", "x", "y"}
Word == Alpha \cup {"0", "3", "5", "_"}

RECURSIVE Str(_)
\* A sequence of characters as one string (a placeholder name).
Str(t) == IF t = <<>> THEN "" ELSE t[1] \o Str(Tail(t))

\* s[from..] starts with the characters of lit.
StartsWithAt(s, from, lit) ==
    /\ from + Len(lit) - 1 <= Len(s)
    /\ \A k \in 1..Len(lit) : s[from + k - 1] = lit[k]

RECURSIVE WordEnd(_, _)
\* Greedy \w*: the last index of the run of word characters that follows i.
WordEnd(s, i) == IF i < Len(s) /\ s[i + 1] \in Word THEN WordEnd(s, i + 1) ELSE i

RECURSIVE SegEnd(_, _)
\* Greedy [^/]*: the last index of the run of non-slash characters after i.
SegEnd(s, i) == IF i < Len(s) /\ s[i + 1] # "/" THEN SegEnd(s, i + 1) ELSE i

RECURSIVE FindPlaceholder(_, _)
\* Leftmost index >= i where route_re can start ("/:" and a letter); 0 if none.
FindPlaceholder(route, i) ==
    IF i + 2 > Len(route) THEN 0
    ELSE IF route[i] = "/" /\ route[i + 1] = ":" /\ route[i + 2] \in Alpha THEN i
    ELSE FindPlaceholder(route, i + 1)

RECURSIVE route_re_split(_, _)
\* route_re.split(route): <<prefix, placeholder, ext, literal, placeholder, ext,
\* literal, ...>>.  An ext group that did not take part (None) is <<>>: the
\* code only tests it for truth.
route_re_split(route, from) ==
    LET i == FindPlaceholder(route, from) IN
    IF i = 0 THEN << SubSeq(route, from, Len(route)) >>
    ELSE LET e1 == WordEnd(route, i + 2)
             e2 == IF e1 < Len(route) /\ route[e1 + 1] = "?" THEN e1 + 1 ELSE e1
             hasExt == /\ e2 + 1 < Len(route)
                       /\ route[e2 + 1] = "."
                       /\ route[e2 + 2] # "/"
             e3 == IF hasExt THEN SegEnd(route, e2 + 1) ELSE e2
         IN  << SubSeq(route, from, i - 1), SubSeq(route, i, e2),
                SubSeq(route, e2 + 1, e3) >> \o route_re_split(route, e3 + 1)

\* One piece of the regular expression _compile_route assembles.
Literal(text) ==
    [type |-> "lit", text |-> text, name |-> "", ext |-> <<>>, optional |-> FALSE]
Group(name, ext, optional) ==
    [type |-> "group", text |-> <<>>, name |-> name, ext |-> ext,
     optional |-> optional]

RECURSIVE rpat_groups_no_ext(_, _)
\* rpat_groups without `name += re.escape(ext)`: the extension is dropped.
rpat_groups_no_ext(pat, k) ==
    IF k > Len(pat) THEN <<>>
    ELSE LET raw == SubSeq(pat[k], 3, Len(pat[k]))
             optional == raw[Len(raw)] = "?"
             name == IF optional THEN SubSeq(raw, 1, Len(raw) - 1) ELSE raw
             s == pat[k + 2]
         IN  << [type |-> "group", text |-> <<>>, name |-> Str(name),
                 ext |-> <<>>, optional |-> optional] >>
             \o (IF s # <<>> THEN << [type |-> "lit", text |-> s, name |-> "",
                                      ext |-> <<>>, optional |-> FALSE] >>
                 ELSE <<>>)
             \o rpat_groups_no_ext(pat, k + 3)

RECURSIVE rpat_groups(_, _)
\* The while loop of _compile_route over pat, from the placeholder at index k.
rpat_groups(pat, k) ==
    IF k > Len(pat) THEN <<>>
    ELSE LET raw == SubSeq(pat[k], 3, Len(pat[k]))
             optional == raw[Len(raw)] = "?"
             name == IF optional THEN SubSeq(raw, 1, Len(raw) - 1) ELSE raw
             ext == pat[k + 1]
             s == pat[k + 2]
         IN  << Group(Str(name), ext, optional) >>
             \o (IF s # <<>> THEN << Literal(s) >> ELSE <<>>)
             \o rpat_groups(pat, k + 3)

\* rpat of _compile_route: the pieces of the pattern, in order.
rpat_of(pat) ==
    (IF pat[1] # <<>> THEN << Literal(pat[1]) >> ELSE <<>>) \o rpat_groups(pat, 2)
rpat(route) == rpat_of(route_re_split(route, 1))

GroupNames(r) == { r[k].name : k \in { j \in 1..Len(r) : r[j].type = "group" } }
NumGroups(r) == Cardinality({ j \in 1..Len(r) : r[j].type = "group" })

\* Whether _compile_route(route) returns a matcher: the assert on the first
\* character, and re.compile's refusal of a group name defined twice.
NamesDistinct(r) == Cardinality(GroupNames(r)) = NumGroups(r)
CompileOk(route) ==
    /\ IF route = <<>> THEN TRUE ELSE route[1] = "/"
    /\ NamesDistinct(rpat(route))

\* The regular expression's "$": the end of the string, or just before a
\* newline that ends it.
AtEnd(path, pos) ==
    \/ pos = Len(path) + 1
    \/ pos = Len(path) /\ path[pos] = "\n"

NoMatch == [ok |-> FALSE, data |-> <<>>, end |-> 0]

\* The first alternative of a backtracking choice if it matches, else the
\* second.
OrElse(first, second) == IF first.ok THEN first ELSE second

RECURSIVE MatchFrom(_, _, _, _, _, _)
RECURSIVE TryGroup(_, _, _, _, _, _, _)
\* re.match of the pieces r[i..] at path[pos..], in the order a backtracking
\* matcher explores: a group takes the longest value first, an optional group
\* is skipped only when it cannot take part.  data collects groupdict()
\* without the groups that did not take part; end is the last index matched.
MatchFrom(r, i, path, pos, data, partial) ==
    IF i > Len(r)
    THEN IF partial \/ AtEnd(path, pos)
         THEN [ok |-> TRUE, data |-> data, end |-> pos - 1]
         ELSE NoMatch
    ELSE IF r[i].type = "lit"
    THEN IF StartsWithAt(path, pos, r[i].text)
         THEN MatchFrom(r, i + 1, path, pos + Len(r[i].text), data, partial)
         ELSE NoMatch
    ELSE OrElse(IF pos <= Len(path) /\ path[pos] = "/"
                THEN TryGroup(r, i, path, pos, SegEnd(path, pos), data, partial)
                ELSE NoMatch,
                IF r[i].optional
                THEN MatchFrom(r, i + 1, path, pos, data, partial)
                ELSE NoMatch)

\* The group r[i] with its value ending at index k (k = pos: the empty value).
TryGroup(r, i, path, pos, k, data, partial) ==
    IF k < pos THEN NoMatch
    ELSE OrElse(IF StartsWithAt(path, k + 1, r[i].ext)
                THEN MatchFrom(r, i + 1, path, k + 1 + Len(r[i].ext),
                               (r[i].name :> SubSeq(path, pos + 1, k)) @@ data,
                               partial)
                ELSE NoMatch,
                TryGroup(r, i, path, pos, k - 1, data, partial))

\* route_data that returns groupdict('') as it is: a group that did not take
\* part is mapped to the empty string.
route_data_groupdict(route, path) ==
    LET m == MatchFrom(rpat(route), 1, path, 1, <<>>, FALSE) IN
    [ok |-> m.ok,
     data |-> IF m.ok
              THEN [ name \in GroupNames(rpat(route)) |->
                         IF name \in DOMAIN m.data THEN m.data[name] ELSE <<>> ]
              ELSE <<>>]

\* route_data(request, path) of _compile_route(route): the mapping, or no match.
route_data(route, path) ==
    [ f \in {"ok", "data"} |->
        MatchFrom(rpat(route), 1, path, 1, <<>>, FALSE)[f] ]

\* The rest of the path after the prefix a partial match ends at.
rest_of(path, m) ==
    [ok |-> m.ok, data |-> m.data,
     path |-> IF m.ok THEN SubSeq(path, m.end + 1, Len(path)) ELSE <<>>]

\* partial_route_data(request, path) of _compile_route(route, True): the
\* mapping and the rest of the path after the matched prefix.
partial_route_data(route, path) ==
    rest_of(path, MatchFrom(rpat(route), 1, path, 1, <<>>, TRUE))

\* --------------------------------------------------------------- methods

\* The key None of a per-route method table, and the bobo_methods of a
\* handler that accepts any method.
NONE == "None"

\* The request methods the model issues.
Methods == {"GET", "POST", "PUT", "HEAD"}

\* Python's order on the method names (alphabetical).
MethodRank(m) ==
    CASE m = "DELETE" -> 1 [] m = "GET" -> 2 [] m = "HEAD" -> 3
      [] m = "OPTIONS" -> 4 [] m = "POST" -> 5 [] m = "PUT" -> 6
      [] OTHER -> 7

RECURSIVE sorted(_)
\* sorted(S) for a set (or the keys of a dict) of method names.
sorted(S) ==
    IF S = {} THEN <<>>
    ELSE LET m == CHOOSE x \in S : \A y \in S : MethodRank(x) <= MethodRank(y)
         IN  << m >> \o sorted(S \ {m})

\* set(seq): the elements of a list.
Range(seq) == { seq[k] : k \in 1..Len(seq) }

\* ------------------------------------------------- responses and signals

_default_content_type == "text/html; charset=UTF-8"

\* A webob.Response: status, header list, content type, body.  A body is its
\* type ("text", "bytes", or "unset" when it was never set) and its content,
\* a sequence of strings.
NoBody == [type |-> "unset", val |-> <<>>]
Response(status, headerlist, content_type, body) ==
    [status |-> status, headerlist |-> headerlist,
     content_type |-> content_type, body |-> body]

\* What a call of a resource's bobo_response(request, path, method) ends in:
\* a returned value (None or a response object) or a raised exception.
ReturnNone == [kind |-> "None"]
Return(response) == [kind |-> "response", response |-> response]
MethodNotAllowed(allowed) ==
    [kind |-> "MethodNotAllowed", allowed |-> sorted(allowed)]
BoboException(status, body, content_type, headers) ==
    [kind |-> "BoboException", status |-> status, body |-> body,
     content_type |-> content_type, headers |-> headers]
MissingFormVariable(name) == [kind |-> "MissingFormVariable", name |-> name]
NotFound == [kind |-> "NotFound"]
\* Another exception: class is "Exception" (an application error),
\* "TypeError", one of bbbbad_errors, or "GeneratorExit" (a BaseException
\* that is not an Exception).
Raise(class) == [kind |-> "raise", class |-> class]
bbbbad_errors == {"KeyboardInterrupt", "SystemExit", "MemoryError"}
\* The classes that `except Exception` catches.
Exception == {"Exception", "TypeError", "MemoryError"}

\* _err_response(status, method, title, message, headers).
_err_response(status, method, title, message, headers) ==
    Response(status, headers, "text/html; charset=UTF-8",
             IF method # "HEAD"
             THEN [type |-> "text", val |-> << title >> \o message]
             ELSE NoBody)

\* Application.not_found, missing_form_variable, method_not_allowed, exception
\* (the default hooks).
not_found(path, method) ==
    _err_response(404, method, "Not Found", << "Could not find: " >> \o path, <<>>)
missing_form_variable(method, name) ==
    _err_response(403, method, "Missing parameter",
                  << "Missing form variable ", name >>, <<>>)
RECURSIVE unsorted(_)
\* The elements of a set in the reverse of sorted order.
unsorted(S) ==
    IF S = {} THEN <<>>
    ELSE LET m == CHOOSE x \in S : \A y \in S : MethodRank(x) >= MethodRank(y)
         IN  << m >> \o unsorted(S \ {m})

\* method_not_allowed without sorted().
method_not_allowed_unsorted(method, methods) ==
    _err_response(405, method, "Method Not Allowed",
                  << "Invalid request method: ", method >>,
                  << << "Allow", unsorted(methods) >> >>)

\* ', '.join(names) is kept as the sequence of the names joined.
method_not_allowed(method, methods) ==
    _err_response(405, method, "Method Not Allowed",
                  << "Invalid request method: ", method >>,
                  << << "Allow", sorted(methods) >> >>)
exception(method) ==
    _err_response(500, method, "Internal Server Error", << "An error occurred." >>, <<>>)

_json_content_type(content_type) == content_type = "application/json"

\* build_response that returns for HEAD before it sets the content type.
build_response_head_first(method, data) ==
    IF method = "HEAD"
    THEN Return(Response(data.status, data.headers, _default_content_type, NoBody))
    ELSE IF data.body.type \in {"text", "bytes"}
    THEN Return(Response(data.status, data.headers, data.content_type, data.body))
    ELSE IF _json_content_type(data.content_type)
    THEN Return(Response(data.status, data.headers, data.content_type,
                         [type |-> "bytes", val |-> << "json" >> \o data.body.val]))
    ELSE Raise("TypeError")

\* Application.build_response(request, method, data): the response, or the
\* TypeError it raises.
build_response(method, data) ==
    LET response == Response(data.status, data.headers, data.content_type, NoBody)
    IN  IF method = "HEAD" THEN Return(response)
        ELSE IF data.body.type \in {"text", "bytes"}
        THEN Return([response EXCEPT !.body = data.body])
        ELSE IF _json_content_type(data.content_type)
        THEN Return([response EXCEPT
                        !.body = [type |-> "bytes", val |-> << "json" >> \o data.body.val]])
        ELSE Raise("TypeError")

\* ------------------------------------------------------------- resources

\* One event of a request, in the order things happen: a resource's
\* bobo_response is entered ("try"), a check function is called ("check"), a
\* decorated callable is called ("call").
Ev(what, id) == << what, id >>

\* The result of calling a resource: how the call ends, and what happened.
Result(out, trace) == [out |-> out, trace |-> trace]

\* _Handler.__init__: a handler node.  sub is <<>> or << the node this one is
\* stacked on >> (bobo_sub_find); func names bobo_original and returns says
\* what that callable gives back ("text": a string, "response": a response
\* object); check is "none" (no check), "pass" (returns None) or "deny"
\* (returns a response).
\* params is "" (None) or the request attribute the callable's arguments are
\* taken from; args and nrequired are the callable's signature.
_Handler(id, route, func, returns, method, check, order_, sub) ==
    [kind |-> "handler", id |-> id, bobo_route |-> route, bobo_methods |-> method,
     func |-> func, returns |-> returns, check |-> check,
     content_type |-> _default_content_type, bobo_order |-> order_, sub |-> sub,
     params |-> "", args |-> <<>>, nrequired |-> 0]

\* An object that has a bobo_response method of its own and no bobo_route,
\* bobo_methods or bobo_order; behaviour says how that method ends.
Custom(id, behaviour) == [kind |-> "custom", id |-> id, behaviour |-> behaviour]

\* The response object a callable, or a check function, of a resource returns.
ResponseOf(who) ==
    Response(200, <<>>, "text/plain", [type |-> "text", val |-> << who >>])

\* bobo_response of a Custom object.
Custom_bobo_response(r, path, method) ==
    Result(CASE r.behaviour = "None" -> ReturnNone
             [] r.behaviour = "response" -> Return(ResponseOf(r.id))
             [] r.behaviour = "MethodNotAllowed" -> MethodNotAllowed({"PUT"})
             [] r.behaviour = "NotFound" -> NotFound
             [] r.behaviour = "BoboException" ->
                    BoboException(201, [type |-> "text", val |-> << r.id >>],
                                  _default_content_type, <<>>)
             [] r.behaviour = "BoboException_json" ->
                    BoboException(200, [type |-> "object", val |-> << r.id >>],
                                  "application/json",
                                  << << "X-Id", << r.id >> >> >>)
             [] r.behaviour = "BoboException_object" ->
                    BoboException(200, [type |-> "object", val |-> << r.id >>],
                                  _default_content_type, <<>>)
             [] r.behaviour = "MissingFormVariable" -> MissingFormVariable("b")
             [] OTHER -> Raise(r.behaviour),
           << Ev("try", r.id) >>)

\* ------------------------------------------------- binding of arguments

\* The request in hand: its form data, content type and JSON body.
VARIABLE request

\* What the cached properties have stored in the nodes: the id of a node whose
\* property match, and id.bobo_handle for one whose property bobo_handle,
\* has put its value in the node's __dict__.
VARIABLE compiled

\* A request without form data and without a body.  params is what
\* getattr(request, paramsattr) holds: for each name that has values, their
\* list; json is request.json: ok says that the body parses to an object, obj
\* maps the object's keys to their values, written as Python writes them;
\* environ is the set of the keys of request.environ that are set to true.
NoForm == [params |-> <<>>, content_type |-> "",
           json |-> [ok |-> TRUE, obj |-> <<>>], environ |-> {}]

\* How Python writes a string, and a list of strings.
py_str(t) == "'" \o Str(t) \o "'"
RECURSIVE py_items(_)
py_items(ts) ==
    IF ts = <<>> THEN ""
    ELSE IF Len(ts) = 1 THEN py_str(ts[1])
    ELSE py_str(ts[1]) \o ", " \o py_items(Tail(ts))
py_list(ts) == "[" \o py_items(ts) \o "]"

\* The callable has been called and has returned.
Called == [kind |-> "called"]

\* value_for that asks the form before the route data.
value_for_form_first(h, req, route, index) ==
    LET name == h.args[index] IN
    CASE name = "bobo_request" -> [kind |-> "bind", v |-> "request"]
      [] name \in DOMAIN req.params ->
             [kind |-> "bind",
              v |-> IF Len(req.params[name]) = 1 THEN py_str(req.params[name][1])
                    ELSE py_list(req.params[name])]
      [] name \in DOMAIN route -> [kind |-> "bind", v |-> py_str(route[name])]
      [] req.content_type = "application/json" /\ ~req.json.ok ->
             [kind |-> "raise", v |-> "ValueError"]
      [] req.content_type = "application/json" /\ name \in DOMAIN req.json.obj ->
             [kind |-> "bind", v |-> req.json.obj[name]]
      [] index <= h.nrequired -> [kind |-> "missing", v |-> name]
      [] OTHER -> [kind |-> "skip", v |-> name]

\* value_for that leaves out a required argument without a value, as it
\* leaves out an optional one.
value_for_no_missing(h, req, route, index) ==
    LET name == h.args[index] IN
    CASE name = "bobo_request" -> [kind |-> "bind", v |-> "request"]
      [] name \in DOMAIN route -> [kind |-> "bind", v |-> py_str(route[name])]
      [] name \in DOMAIN req.params ->
             [kind |-> "bind",
              v |-> IF Len(req.params[name]) = 1 THEN py_str(req.params[name][1])
                    ELSE py_list(req.params[name])]
      [] req.content_type = "application/json" /\ ~req.json.ok ->
             [kind |-> "raise", v |-> "ValueError"]
      [] req.content_type = "application/json" /\ name \in DOMAIN req.json.obj ->
             [kind |-> "bind", v |-> req.json.obj[name]]
      [] OTHER -> [kind |-> "skip", v |-> name]

\* One pass of the loop of bobo_apply, for the argument at index (counted
\* from 1): what the argument is bound to, or how the loop is left.  The
\* JSON body is read the first time an argument has no value in the route
\* data and none in the form, and reading a body that is not an object
\* raises.
value_for(h, req, route, index) ==
    LET name == h.args[index] IN
    CASE name = "bobo_request" -> [kind |-> "bind", v |-> "request"]
      [] name \in DOMAIN route -> [kind |-> "bind", v |-> py_str(route[name])]
      [] name \in DOMAIN req.params ->
             [kind |-> "bind",
              v |-> IF Len(req.params[name]) = 1 THEN py_str(req.params[name][1])
                    ELSE py_list(req.params[name])]
      [] req.content_type = "application/json" /\ ~req.json.ok ->
             [kind |-> "raise", v |-> "ValueError"]
      [] req.content_type = "application/json" /\ name \in DOMAIN req.json.obj ->
             [kind |-> "bind", v |-> req.json.obj[name]]
      [] index <= h.nrequired -> [kind |-> "missing", v |-> name]
      [] OTHER -> [kind |-> "skip", v |-> name]

RECURSIVE bobo_apply_loop(_, _, _, _, _)
\* The loop of bobo_apply from index on; kw holds the keyword arguments
\* bound so far, each as a "bind" event that names the argument followed by
\* a "value" event.  When the loop ends the callable is called with them.
bobo_apply_step(h, req, route, index, kw, v) ==
    CASE v.kind = "raise" -> Result(Raise(v.v), <<>>)
      [] v.kind = "missing" -> Result(MissingFormVariable(v.v), <<>>)
      [] OTHER ->
             bobo_apply_loop(h, req, route, index + 1,
                             IF v.kind = "bind"
                             THEN kw \o << Ev("bind", h.args[index]),
                                           Ev("value", v.v) >>
                             ELSE kw)
bobo_apply_loop(h, req, route, index, kw) ==
    IF index > Len(h.args)
    THEN Result(Called, kw \o << Ev("call", h.func) >>)
    ELSE bobo_apply_step(h, req, route, index, kw,
                         value_for(h, req, route, index))

\* bobo_apply(request, **route) of _make_caller(obj, paramsattr) for the
\* callable of the node h.
bobo_apply(h, req, route) == bobo_apply_loop(h, req, route, 1, <<>>)

\* ------------------------------------------------------------ handler nodes

\* _Handler.match(request, path, method): the route data, None, or
\* MethodNotAllowed; a route that does not compile raises when the matcher
\* is first built.
match_data_method_first(h, data, method) ==
    IF h.bobo_methods = {NONE}
    THEN [kind |-> IF data.ok THEN "data" ELSE "None", data |-> data.data]
    ELSE IF method \notin h.bobo_methods
         THEN [kind |-> "MethodNotAllowed", data |-> <<>>]
         ELSE [kind |-> IF data.ok THEN "data" ELSE "None", data |-> data.data]
match_data(h, data, method) ==
    IF h.bobo_methods = {NONE}
    THEN [kind |-> IF data.ok THEN "data" ELSE "None", data |-> data.data]
    ELSE IF data.ok
         THEN IF method \notin h.bobo_methods
              THEN [kind |-> "MethodNotAllowed", data |-> <<>>]
              ELSE [kind |-> "data", data |-> data.data]
         ELSE [kind |-> "None", data |-> <<>>]
\* A cached property that stores the value and returns None the first time:
\* the first call of self.match fails, the later ones use the cache.
match_first_get_none(h, path, method) ==
    IF h.id \notin compiled THEN [kind |-> "raise", data |-> <<>>]
    ELSE match_data(h, route_data(h.bobo_route, path), method)

\* self.match(request, path, method): the matcher from the node's __dict__,
\* or, the first time, the one _compile_route makes (or the error it raises).
match(h, path, method) ==
    IF h.id \notin compiled /\ ~CompileOk(h.bobo_route)
    THEN [kind |-> "raise", data |-> <<>>]
    ELSE match_data(h, route_data(h.bobo_route, path), method)

\* result = func(*args, **route) for a callable that does not return a
\* response object: a string ("text"), None ("None", a body without
\* content) or another object, such as a dict ("object").
raw_result(h) ==
    CASE h.returns = "None" -> [type |-> "None", val |-> <<>>]
      [] h.returns = "object" -> [type |-> "object", val |-> << h.func >>]
      [] OTHER -> [type |-> "text", val |-> << h.func >>]

\* A handle that takes a result of None for "no match" and returns it.
handle_result_none_returned(h, r) ==
    Result(IF r.out.kind # "called" THEN r.out
           ELSE IF h.returns = "response"
           THEN Return(ResponseOf(h.func))
           ELSE IF h.returns = "None" THEN ReturnNone
           ELSE BoboException(200, raw_result(h), h.content_type, <<>>),
           (IF h.check = "none" THEN <<>> ELSE << Ev("check", h.id) >>)
               \o r.trace)

\* handle(*args, **route) of _make_bobo_handle for the node h: the check, then
\* the callable (through bobo_apply when the node has params), whose result
\* is returned if it is a response object and is raised as
\* BoboException(200, result, content_type) if it is not.
handle_result(h, r) ==
    Result(IF r.out.kind # "called" THEN r.out
           ELSE IF h.returns = "response"
           THEN Return(ResponseOf(h.func))
           ELSE BoboException(200, raw_result(h), h.content_type, <<>>),
           (IF h.check = "none" THEN <<>> ELSE << Ev("check", h.id) >>)
               \o r.trace)
\* A handle that calls the function whatever the check returns.
bobo_handle_unchecked(h, route) ==
    handle_result(h, IF h.params = ""
                     THEN Result(Called, << Ev("call", h.func) >>)
                     ELSE bobo_apply(h, request, route))

bobo_handle(h, route) ==
    IF h.check = "deny"
    THEN Result(Return(ResponseOf("check")), << Ev("check", h.id) >>)
    ELSE handle_result(h, IF h.params = ""
                          THEN Result(Called, << Ev("call", h.func) >>)
                          ELSE bobo_apply(h, request, route))

\* A result with the events before put in front of its own.
After(before, r) == Result(r.out, before \o r.trace)

RECURSIVE Handler_bobo_response(_, _, _)
\* The body of _Handler.bobo_response once self.match has answered.
Handler_after_match(h, route_data_, path, method) ==
    CASE route_data_.kind = "raise" -> Result(Raise("Exception"), <<>>)
      [] route_data_.kind = "MethodNotAllowed" ->
             Result(MethodNotAllowed(h.bobo_methods), <<>>)
      [] route_data_.kind = "None" ->
             IF h.sub = <<>> THEN Result(ReturnNone, <<>>)
             ELSE Handler_bobo_response(h.sub[1], path, method)
      [] OTHER -> bobo_handle(h, route_data_.data)

\* _Handler.bobo_response(request, path, method).
Handler_bobo_response(h, path, method) ==
    After(<< Ev("try", h.id) >>,
          Handler_after_match(h, match(h, path, method), path, method))

\* Subroute.__init__(route, handler): a handler node without methods, params
\* and check, whose callable is a resource factory.  factory is <<>> when
\* the factory returns None and << the resource it returns >> otherwise.
Subroute(id, route, func, factory, order_) ==
    [kind |-> "subroute", id |-> id, bobo_route |-> route,
     bobo_methods |-> {NONE}, func |-> func, factory |-> factory,
     bobo_order |-> order_, sub |-> <<>>]

RECURSIVE Resource_bobo_response(_, _, _)
\* The body of Subroute.bobo_response once self.match has matched a prefix:
\* the factory is called, and the resource it returns is asked for the
\* response to the rest of the path.
Subroute_resolve(s, rest, method) ==
    IF s.factory = <<>> THEN Result(ReturnNone, << Ev("call", s.func) >>)
    ELSE After(<< Ev("call", s.func), Ev("resolve", method \o " " \o Str(rest)) >>,
               Resource_bobo_response(s.factory[1], rest, method))

\* Subroute.bobo_response that hands the whole path to the resource.
Subroute_bobo_response_whole_path(s, path, method) ==
    After(<< Ev("try", s.id) >>,
          IF s.id \notin compiled /\ ~CompileOk(s.bobo_route)
          THEN Result(Raise("Exception"), <<>>)
          ELSE IF ~partial_route_data(s.bobo_route, path).ok
          THEN Result(ReturnNone, <<>>)
          ELSE Subroute_resolve(s, path, method))

\* Subroute.bobo_response(request, path, method).
Subroute_bobo_response(s, path, method) ==
    After(<< Ev("try", s.id) >>,
          IF s.id \notin compiled /\ ~CompileOk(s.bobo_route)
          THEN Result(Raise("Exception"), <<>>)
          ELSE IF ~partial_route_data(s.bobo_route, path).ok
          THEN Result(ReturnNone, <<>>)
          ELSE Subroute_resolve(s, partial_route_data(s.bobo_route, path).path,
                                method))

\* resource.bobo_response(request, path, method) for a resource of a module.
Resource_bobo_response(r, path, method) ==
    IF r.kind = "custom" THEN Custom_bobo_response(r, path, method)
    ELSE IF r.kind = "subroute" THEN Subroute_bobo_response(r, path, method)
    ELSE Handler_bobo_response(r, path, method)

\* -------------------------------------------------------------- ordering

\* The exponent of _late_base.  The source uses 1<<99; the model keeps the
\* base a power of two above every key the counter hands out in a scan, and
\* small enough for the counter to be able to reach it.
late_shift == 3

_late_base == 2 ^ late_shift
_early_base == 0 - _late_base

\* -------------------------------------------------- scanning for resources

\* scan_order that ignores the keys: the scan keeps the definition order.
scan_order_unkeyed(r) == 0

\* order = getattr(resource, 'bobo_order', 0) or _late_base
scan_order(r) ==
    IF r.kind = "custom" THEN _late_base
    ELSE IF r.bobo_order = 0 THEN _late_base ELSE r.bobo_order

RECURSIVE insort(_, _)
\* seq with x put after every element whose order is not larger than x's.
insort(seq, x) ==
    IF seq = <<>> THEN << x >>
    ELSE IF scan_order(seq[1]) <= scan_order(x)
    THEN << seq[1] >> \o insort(Tail(seq), x)
    ELSE << x >> \o seq

RECURSIVE sort_by_order(_)
\* resources.sort(key=lambda o: o[0]): a stable sort by order.  (scan_class
\* sorts (order, (name, resource)) tuples: equal orders fall back on the
\* attribute names, which the model takes to be in definition order.)
sort_by_order(resources) ==
    IF resources = <<>> THEN <<>>
    ELSE insort(sort_by_order(SubSeq(resources, 1, Len(resources) - 1)),
                resources[Len(resources)])

\* The entry _make_br_function_by_methods(route, by_method) puts in the
\* handler list: one route and the table from method to resource.
br_by_methods(route, by_method) ==
    [kind |-> "by_methods", route |-> route, by_method |-> by_method]

RECURSIVE scan_loop_last_wins(_, _, _, _)
\* scan_loop with by_methods[method] = bobo_response for every method: the
\* resource seen last takes the method.
scan_loop_last_wins(resources, k, handlers_, by_route) ==
    IF k > Len(resources) THEN handlers_
    ELSE LET r == resources[k] IN
         IF r.kind = "custom"
         THEN scan_loop_last_wins(resources, k + 1, Append(handlers_, r),
                                  by_route)
         ELSE LET route == r.bobo_route
                  known == /\ route \in DOMAIN by_route
                           /\ DOMAIN handlers_[by_route[route]].by_method # {}
                  at == IF known THEN by_route[route] ELSE Len(handlers_) + 1
                  hs == IF known THEN handlers_
                        ELSE Append(handlers_, br_by_methods(route, <<>>))
                  old == hs[at].by_method
                  new == [m \in DOMAIN old \cup r.bobo_methods |->
                             IF m \in r.bobo_methods THEN r ELSE old[m]]
              IN  scan_loop_last_wins(resources, k + 1,
                                      [hs EXCEPT ![at].by_method = new],
                                      (route :> at) @@ by_route)

RECURSIVE scan_loop(_, _, _, _)
\* The grouping loop of _scan_module (and of scan_class) over the sorted
\* resources, from index k; by_route maps a route to the index in handlers of
\* the entry that holds its method table.
scan_loop(resources, k, handlers_, by_route) ==
    IF k > Len(resources) THEN handlers_
    ELSE LET r == resources[k] IN
         IF r.kind = "custom"
         THEN scan_loop(resources, k + 1, Append(handlers_, r), by_route)
         ELSE LET route == r.bobo_route
                  known == /\ route \in DOMAIN by_route
                           /\ DOMAIN handlers_[by_route[route]].by_method # {}
                  at == IF known THEN by_route[route] ELSE Len(handlers_) + 1
                  hs == IF known THEN handlers_
                        ELSE Append(handlers_, br_by_methods(route, <<>>))
                  old == hs[at].by_method
                  new == [m \in DOMAIN old \cup r.bobo_methods |->
                             IF m \in DOMAIN old THEN old[m] ELSE r]
              IN  scan_loop(resources, k + 1, [hs EXCEPT ![at].by_method = new],
                            (route :> at) @@ by_route)

\* list(_scan_module(module)) for a module without a bobo_response of its
\* own, and the handlers list scan_class builds for a class.
_scan_module(module_) == scan_loop(sort_by_order(module_), 1, <<>>, <<>>)

\* bobo_response_function_by_method that does not look the method up: it
\* calls the handler of the table's first key.
bobo_response_function_any_method(g, path, method) ==
    IF DOMAIN g.by_method = {}
    THEN IF route_data(g.route, path).ok
         THEN Result(MethodNotAllowed(DOMAIN g.by_method), <<>>)
         ELSE Result(ReturnNone, <<>>)
    ELSE Resource_bobo_response(g.by_method[sorted(DOMAIN g.by_method)[1]],
                                path, method)

\* bobo_response_function_by_method that looks for the any-method handler
\* first and for the handler of the method second.
bobo_response_function_none_first(g, path, method) ==
    LET handler == IF NONE \in DOMAIN g.by_method THEN << g.by_method[NONE] >>
                   ELSE IF method \in DOMAIN g.by_method
                   THEN << g.by_method[method] >>
                   ELSE <<>>
    IN  IF handler = <<>>
        THEN IF route_data(g.route, path).ok
             THEN Result(MethodNotAllowed(DOMAIN g.by_method), <<>>)
             ELSE Result(ReturnNone, <<>>)
        ELSE Resource_bobo_response(handler[1], path, method)

\* bobo_response_function_by_method(request, path, method) of
\* _make_br_function_by_methods (bobo_response_method_by_methods of
\* _make_br_method_by_methods for a class).
bobo_response_function_by_method(g, path, method) ==
    LET handler == IF method \in DOMAIN g.by_method THEN << g.by_method[method] >>
                   ELSE IF NONE \in DOMAIN g.by_method THEN << g.by_method[NONE] >>
                   ELSE <<>>
    IN  IF handler = <<>>
        THEN IF route_data(g.route, path).ok
             THEN Result(MethodNotAllowed(DOMAIN g.by_method), <<>>)
             ELSE Result(ReturnNone, <<>>)
        ELSE Resource_bobo_response(handler[1], path, method)

\* handler(request, path, method) for one entry of a handler list.
handler_call(entry, path, method) ==
    IF entry.kind = "by_methods"
    THEN bobo_response_function_by_method(entry, path, method)
    ELSE Resource_bobo_response(entry, path, method)

RECURSIVE Nodes(_)
\* The handler nodes reachable from an entry of a handler list or a resource
\* of a module: the resources of a method table, and the nodes a node is
\* stacked on.
Nodes(r) ==
    IF r.kind = "custom" THEN {}
    ELSE IF r.kind = "by_methods"
    THEN UNION { Nodes(r.by_method[m]) : m \in DOMAIN r.by_method }
    ELSE {r} \cup (IF r.sub = <<>> THEN {} ELSE Nodes(r.sub[1]))

\* Cached properties that fill every node of the list at the first call.
Cached_all(tr, resources, p, m) ==
    { n.id : n \in UNION { Nodes(resources[i]) : i \in DOMAIN resources } }

\* What the cached properties stored in the nodes' __dict__ while the events
\* tr of a call for (p, m) happened: bobo_response reads self.match before
\* anything else, and the property stores what _compile_route returns (the
\* node's id); a handler whose match returned route data reads
\* self.bobo_handle next, and that property stores the wrapper it makes (the
\* node's id followed by ".bobo_handle").  A subroute calls bobo_original
\* and never reads bobo_handle.
Cached(tr, resources, p, m) ==
    LET tried == { n \in UNION { Nodes(resources[i]) : i \in DOMAIN resources } :
                       /\ Ev("try", n.id) \in Range(tr)
                       /\ CompileOk(n.bobo_route) }
    IN  { n.id : n \in tried }
        \cup { n.id \o ".bobo_handle" :
                   n \in { t \in tried :
                              /\ t.kind = "handler"
                              /\ match_data(t, route_data(t.bobo_route, p), m).kind
                                     = "data" } }

\* ------------------------------------------------------------------ state

VARIABLES
    _order,       \* the global counter behind order(), early() and late()
    module,       \* the resources of the module (or class) being defined, in
                  \* definition order
    handlers,     \* Application.handlers, or the handlers of scan_class
    resolver,     \* "Application" or "instance": whose bobo_response runs
    pc,           \* "define", "ready", "loop" (inside the for loop), "done"
    path,         \* the request's path
    method,       \* the request's method
    idx,          \* the index in handlers of the entry the loop is at
    allowed,      \* the local set allowed of the running bobo_response
    result,       \* how the last bobo_response call ended
    last,         \* the last call of an entry of handlers: which entry, how
                  \* it ended, and its events
    trace,        \* the events of the current request
    returned,     \* what the direct calls of order(), early() and late()
                  \* returned, oldest first
    reraise_exceptions,
                  \* the Application's flag: not bobo_handle_exceptions
    previous,     \* << how the last bobo_response ended >> when the running
                  \* one repeats it: the same request, path and method;
                  \* <<>> otherwise
    running       \* the calls of order(), early() and late() that threads are
                  \* in the middle of: for each thread, where it is and the
                  \* value it holds

vars == << _order, module, handlers, resolver, pc, path, method, idx, allowed,
           result, last, trace, request, returned, reraise_exceptions,
           compiled, previous, running >>

\* The threads that register resources, and a thread that is in no call.
Threads == { "t1", "t2", "t3" }
Idle == [at |-> "idle", fn |-> "", loaded |-> 0, seen |-> 0]

\* The most resources a module or class defines.
MaxResources == 2

\* What the model registers and requests.
P_x == << "/", "x" >>
P_y == << "/", "y" >>
R_a == << "/", ":", "a" >>
Routes == { P_x, R_a }
MethodSets == { {"GET"}, {"POST"}, {NONE}, {} }
Behaviours == { "None", "response", "MethodNotAllowed" }
Paths == { P_x, P_y }
RequestMethods == { "GET", "POST", "PUT" }

Init ==
    /\ _order = 0
    /\ module = <<>>
    /\ handlers = <<>>
    /\ resolver = "none"
    /\ pc = "define"
    /\ path = <<>>
    /\ method = ""
    /\ idx = 0
    /\ allowed = {}
    /\ result = ReturnNone
    /\ last = [idx |-> 0, out |-> ReturnNone, trace |-> <<>>]
    /\ trace = <<>>
    /\ request = NoForm
    /\ returned = <<>>
    /\ reraise_exceptions = FALSE
    /\ compiled = {}
    /\ previous = <<>>
    /\ running = [t \in Threads |-> Idle]

request_vars == << path, method, idx, allowed, result, last, trace >>

\* ----------------------------------------------------------- registration

\* order_key with a late() that forgets the counter.
order_key_late_base(kind, n) ==
    CASE kind = "late" -> _late_base
      [] kind = "early" -> n + _early_base
      [] OTHER -> n

\* The key a decorator call gets: order_ = order() when no order is passed,
\* or the value of the early() or late() call passed as order.
order_key(kind, n) ==
    CASE kind = "late" -> n + _late_base
      [] kind = "early" -> n + _early_base
      [] OTHER -> n

\* @bobo.resource(route, method=methods, order=...) on a function: order(),
\* early() or late() is called once, and the module gains a handler.
resource(route, methods, kind, returns) ==
    /\ pc = "define"
    /\ Len(module) < MaxResources
    /\ LET n == _order + 1
           name == ToString(n)
       IN  /\ _order' = n
           /\ module' = Append(module,
                  _Handler("n" \o name, route, "f" \o name, returns, methods,
                           "none", order_key(kind, n), <<>>))
    /\ UNCHANGED << compiled, previous, running >>
    /\ UNCHANGED << request, returned, reraise_exceptions >>
    /\ UNCHANGED << handlers, resolver, pc, request_vars >>

\* An object with a bobo_response method of its own is defined in the module.
custom_resource(behaviour) ==
    /\ pc = "define"
    /\ Len(module) < MaxResources
    /\ module' = Append(module, Custom("c" \o ToString(Len(module) + 1), behaviour))
    /\ UNCHANGED << compiled, previous, running >>
    /\ UNCHANGED << request, returned, reraise_exceptions >>
    /\ UNCHANGED << _order, handlers, resolver, pc, request_vars >>

\* _make_br_function_by_methods and _make_br_method_by_methods compile the
\* route of every method table when the scan makes it: whether they all
\* compile.
scan_compiles(handlers_) ==
    \A i \in 1..Len(handlers_) :
        handlers_[i].kind = "by_methods" => CompileOk(handlers_[i].route)

\* Application(bobo_resources="module", bobo_handle_exceptions=...): the
\* handlers are those of the scan, or the scan raises the error of a route
\* that does not compile.
Application_of_module(bobo_handle_exceptions) ==
    /\ pc = "define"
    /\ IF scan_compiles(_scan_module(module))
       THEN /\ handlers' = _scan_module(module)
            /\ resolver' = "Application"
            /\ reraise_exceptions' = ~bobo_handle_exceptions
            /\ pc' = "ready"
            /\ UNCHANGED result
       ELSE /\ result' = Raise("Exception")
            /\ pc' = "raised"
            /\ UNCHANGED << handlers, resolver, reraise_exceptions >>
    /\ UNCHANGED << compiled, previous, running >>
    /\ UNCHANGED << request, returned >>
    /\ UNCHANGED << _order, module, path, method, idx, allowed, last, trace >>

\* Application(bobo_resources=[...]): the handlers are the bobo_response
\* methods of the resources, in the order given.
Application_of_list(bobo_handle_exceptions) ==
    /\ pc = "define"
    /\ handlers' = module
    /\ resolver' = "Application"
    /\ reraise_exceptions' = ~bobo_handle_exceptions
    /\ pc' = "ready"
    /\ UNCHANGED << compiled, previous, running >>
    /\ UNCHANGED << request, returned >>
    /\ UNCHANGED << _order, module, request_vars >>

\* scan_class(class_): the instance resolver over the class's resources.
scan_class ==
    /\ pc = "define"
    /\ IF scan_compiles(_scan_module(module))
       THEN /\ handlers' = _scan_module(module)
            /\ resolver' = "instance"
            /\ pc' = "ready"
            /\ UNCHANGED result
       ELSE /\ result' = Raise("Exception")
            /\ pc' = "raised"
            /\ UNCHANGED << handlers, resolver >>
    /\ UNCHANGED << compiled, previous, running >>
    /\ UNCHANGED << request, returned, reraise_exceptions >>
    /\ UNCHANGED << _order, module, path, method, idx, allowed, last, trace >>

\* --------------------------------------------------------------- requests

\* bobo_response(request, path, method) is entered: allowed = set().  With
\* again, the call repeats the one that has just ended, and how that one
\* ended is remembered.
Request(p, m, req, again) ==
    /\ pc \in {"ready", "done"}
    /\ again => pc = "done" /\ << p, m, req >> = << path, method, request >>
    /\ pc' = "loop"
    /\ path' = p
    /\ method' = m
    /\ idx' = 1
    /\ allowed' = {}
    /\ trace' = <<>>
    /\ result' = ReturnNone
    /\ last' = [idx |-> 0, out |-> ReturnNone, trace |-> <<>>]
    /\ request' = req
    /\ previous' = IF again THEN << result >> ELSE <<>>
    /\ UNCHANGED << _order, module, handlers, resolver, returned,
                    reraise_exceptions, compiled, running >>

\* Application_except without the clause for NotFound.
Application_except_no_not_found(exc, p, m, reraise) ==
    CASE exc.kind = "BoboException" -> build_response(m, exc)
      [] exc.kind = "MissingFormVariable" ->
             Return(missing_form_variable(m, exc.name))
      [] exc.kind \in { "NotFound", "MethodNotAllowed" } ->
             IF reraise THEN Raise("Exception") ELSE Return(exception(m))
      [] exc.class \in bbbbad_errors -> exc
      [] exc.class \notin Exception -> exc
      [] OTHER -> IF reraise THEN exc ELSE Return(exception(m))

\* Application_except without the clause for bbbbad_errors.
Application_except_catch_all(exc, p, m, reraise) ==
    CASE exc.kind = "BoboException" -> build_response(m, exc)
      [] exc.kind = "MissingFormVariable" ->
             Return(missing_form_variable(m, exc.name))
      [] exc.kind = "NotFound" -> Return(not_found(p, m))
      [] exc.kind = "MethodNotAllowed" -> Raise("Exception")
      [] exc.class \notin Exception -> exc
      [] OTHER -> IF reraise THEN exc ELSE Return(exception(m))

\* Application_except with the rendering of a BoboException inside the try
\* block: the TypeError of build_response is handled like an entry's error.
Application_except_render_caught(exc, p, m, reraise) ==
    CASE exc.kind = "BoboException" ->
             IF build_response(m, exc).kind # "raise" THEN build_response(m, exc)
             ELSE IF reraise THEN build_response(m, exc)
             ELSE Return(exception(m))
      [] exc.kind = "MissingFormVariable" ->
             Return(missing_form_variable(m, exc.name))
      [] exc.kind = "NotFound" -> Return(not_found(p, m))
      [] exc.kind = "MethodNotAllowed" -> Raise("Exception")
      [] exc.class \in bbbbad_errors -> exc
      [] exc.class \notin Exception -> exc
      [] OTHER -> IF reraise THEN exc ELSE Return(exception(m))

\* The except clauses of Application.bobo_response for an exception other
\* than MethodNotAllowed raised inside its try block.
Application_except(exc, p, m, reraise) ==
    CASE exc.kind = "BoboException" -> build_response(m, exc)
      [] exc.kind = "MissingFormVariable" ->
             Return(missing_form_variable(m, exc.name))
      [] exc.kind = "NotFound" -> Return(not_found(p, m))
      [] exc.kind = "MethodNotAllowed" -> Raise("Exception")
      [] exc.class \in bbbbad_errors -> exc
      [] exc.class \notin Exception -> exc
      [] OTHER -> IF reraise THEN exc ELSE Return(exception(m))

\* Application_try_handler with a loop that does not return at the first
\* non-null response: it keeps the response and goes on.
Application_try_handler_goes_on ==
    /\ pc = "loop"
    /\ resolver = "Application"
    /\ idx <= Len(handlers)
    /\ LET r == handler_call(handlers[idx], path, method) IN
       /\ trace' = trace \o r.trace
       /\ compiled' = compiled \cup Cached(r.trace, handlers, path, method)
       /\ last' = [idx |-> idx, out |-> r.out, trace |-> r.trace]
       /\ idx' = idx + 1
       /\ allowed' = IF r.out.kind = "MethodNotAllowed"
                     THEN allowed \cup Range(r.out.allowed) ELSE allowed
       /\ result' = IF r.out.kind = "response" THEN r.out ELSE result
       /\ pc' = IF r.out.kind \in {"None", "MethodNotAllowed", "response"}
                THEN pc ELSE "done"
    /\ UNCHANGED << previous, running >>
    /\ UNCHANGED << request, returned, reraise_exceptions >>
    /\ UNCHANGED << _order, module, handlers, resolver, path, method >>

\* One pass of the for loop of Application.bobo_response.
Application_try_handler ==
    /\ pc = "loop"
    /\ resolver = "Application"
    /\ idx <= Len(handlers)
    /\ LET r == handler_call(handlers[idx], path, method) IN
       /\ trace' = trace \o r.trace
       /\ compiled' = compiled \cup Cached(r.trace, handlers, path, method)
       /\ last' = [idx |-> idx, out |-> r.out, trace |-> r.trace]
       /\ CASE r.out.kind = "MethodNotAllowed" ->
                   /\ allowed' = allowed \cup Range(r.out.allowed)
                   /\ idx' = idx + 1
                   /\ UNCHANGED << pc, result >>
            [] r.out.kind = "None" ->
                   /\ idx' = idx + 1
                   /\ UNCHANGED << pc, result, allowed >>
            [] r.out.kind = "response" ->
                   /\ result' = r.out
                   /\ pc' = "done"
                   /\ UNCHANGED << idx, allowed >>
            [] OTHER ->
                   /\ result' = Application_except(r.out, path, method,
                          \/ reraise_exceptions
                          \/ "x-wsgiorg.throw_errors" \in request.environ)
                   /\ pc' = "done"
                   /\ UNCHANGED << idx, allowed >>
    /\ UNCHANGED << previous, running >>
    /\ UNCHANGED << request, returned, reraise_exceptions >>
    /\ UNCHANGED << _order, module, handlers, resolver, path, method >>

\* Application_exhausted without the test of allowed: always not found.
Application_exhausted_not_found ==
    /\ pc = "loop"
    /\ resolver = "Application"
    /\ idx > Len(handlers)
    /\ result' = Return(not_found(path, method))
    /\ pc' = "done"
    /\ UNCHANGED << compiled, previous, running >>
    /\ UNCHANGED << request, returned, reraise_exceptions >>
    /\ UNCHANGED << _order, module, handlers, resolver, path, method, idx,
                    allowed, last, trace >>

\* After the loop of Application.bobo_response.
Application_exhausted ==
    /\ pc = "loop"
    /\ resolver = "Application"
    /\ idx > Len(handlers)
    /\ result' = IF allowed # {}
                 THEN Return(method_not_allowed(method, allowed))
                 ELSE Return(not_found(path, method))
    /\ pc' = "done"
    /\ UNCHANGED << compiled, previous, running >>
    /\ UNCHANGED << request, returned, reraise_exceptions >>
    /\ UNCHANGED << _order, module, handlers, resolver, path, method, idx,
                    allowed, last, trace >>

\* instance_try_handler without the except clause: MethodNotAllowed leaves
\* the loop like any other exception.
instance_try_handler_no_except ==
    /\ pc = "loop"
    /\ resolver = "instance"
    /\ idx <= Len(handlers)
    /\ LET r == handler_call(handlers[idx], path, method) IN
       /\ trace' = trace \o r.trace
       /\ compiled' = compiled \cup Cached(r.trace, handlers, path, method)
       /\ last' = [idx |-> idx, out |-> r.out, trace |-> r.trace]
       /\ IF r.out.kind = "None"
          THEN /\ idx' = idx + 1
               /\ UNCHANGED << pc, result, allowed >>
          ELSE /\ result' = r.out
               /\ pc' = "done"
               /\ UNCHANGED << idx, allowed >>
    /\ UNCHANGED << previous, running >>
    /\ UNCHANGED << request, returned, reraise_exceptions >>
    /\ UNCHANGED << _order, module, handlers, resolver, path, method >>

\* One pass of the for loop of instance_bobo_response (scan_class).
instance_try_handler ==
    /\ pc = "loop"
    /\ resolver = "instance"
    /\ idx <= Len(handlers)
    /\ LET r == handler_call(handlers[idx], path, method) IN
       /\ trace' = trace \o r.trace
       /\ compiled' = compiled \cup Cached(r.trace, handlers, path, method)
       /\ last' = [idx |-> idx, out |-> r.out, trace |-> r.trace]
       /\ CASE r.out.kind = "MethodNotAllowed" ->
                   /\ allowed' = allowed \cup Range(r.out.allowed)
                   /\ idx' = idx + 1
                   /\ UNCHANGED << pc, result >>
            [] r.out.kind = "None" ->
                   /\ idx' = idx + 1
                   /\ UNCHANGED << pc, result, allowed >>
            [] OTHER ->
                   /\ result' = r.out
                   /\ pc' = "done"
                   /\ UNCHANGED << idx, allowed >>
    /\ UNCHANGED << previous, running >>
    /\ UNCHANGED << request, returned, reraise_exceptions >>
    /\ UNCHANGED << _order, module, handlers, resolver, path, method >>

\* After the loop of instance_bobo_response.
instance_exhausted ==
    /\ pc = "loop"
    /\ resolver = "instance"
    /\ idx > Len(handlers)
    /\ result' = IF allowed # {} THEN MethodNotAllowed(allowed) ELSE ReturnNone
    /\ pc' = "done"
    /\ UNCHANGED << compiled, previous, running >>
    /\ UNCHANGED << request, returned, reraise_exceptions >>
    /\ UNCHANGED << _order, module, handlers, resolver, path, method, idx,
                    allowed, last, trace >>

Next ==
    \/ \E route \in Routes, methods \in MethodSets :
           resource(route, methods, "order", "text")
    \/ \E behaviour \in Behaviours : custom_resource(behaviour)
    \/ Application_of_module(TRUE)
    \/ Application_of_list(TRUE)
    \/ scan_class
    \/ \E p \in Paths, m \in RequestMethods : Request(p, m, NoForm, FALSE)
    \/ Application_try_handler
    \/ Application_exhausted
    \/ instance_try_handler
    \/ instance_exhausted

Spec == Init /\ [][Next]_vars

\* ------------------------------------------------------- the claims: search

\* How the entry j of the handler list answers the current request.
Outcome(j) == handler_call(handlers[j], path, method).out

\* The entry declines: it returns None or raises MethodNotAllowed.
Declines(j) == Outcome(j).kind \in {"None", "MethodNotAllowed"}

RECURSIVE NodeIds(_)
\* The names under which a handler node, the nodes it is stacked on and their
\* callable appear in events.
NodeIds(h) ==
    {h.id, h.func} \cup (IF h.sub = <<>> THEN {} ELSE NodeIds(h.sub[1]))

ResourceIds(r) == IF r.kind = "custom" THEN {r.id} ELSE NodeIds(r)

\* The names of everything an entry of the handler list can invoke.
EntryIds(entry) ==
    IF entry.kind = "by_methods"
    THEN UNION { ResourceIds(entry.by_method[m]) : m \in DOMAIN entry.by_method }
    ELSE ResourceIds(entry)

\* Nothing of the entries after j has been invoked for the current request.
NoLaterInvoked(j) ==
    \A k \in (j + 1)..Len(handlers) :
        \A e \in Range(trace) : e[2] \notin EntryIds(handlers[k])

\* C1: when Application.bobo_response has ended, and some entry returns a
\* non-null response after every entry before it declined, the result is
\* that response, the loop ended at that entry, and no entry after it has
\* been invoked.
C1_FirstResponseWins ==
    (resolver = "Application" /\ pc = "done") =>
        \A j \in 1..Len(handlers) :
            (Outcome(j).kind = "response" /\ \A i \in 1..(j - 1) : Declines(i))
                => /\ result = Outcome(j)
                   /\ idx = j
                   /\ NoLaterInvoked(j)

\* C1 happens: the first of two entries answers, the second would have
\* answered too and was not invoked.
C1_Witness ==
    /\ resolver = "Application" /\ pc = "done"
    /\ Len(handlers) = 2
    /\ Outcome(1).kind = "response"
    /\ Outcome(2).kind = "response"
    /\ result = Outcome(1)

\* C2: in both resolvers, an entry that raises MethodNotAllowed (reached
\* because every entry before it declined) does not end the search, which
\* goes on past it; and when the first later entry that does not decline
\* returns a non-null response, that response is the result, not a
\* method-not-allowed outcome.
C2_MethodNotAllowedContinues ==
    (pc = "done" /\ resolver \in {"Application", "instance"}) =>
        \A i \in 1..Len(handlers) :
            (Outcome(i).kind = "MethodNotAllowed" /\ \A k \in 1..(i - 1) : Declines(k))
                => /\ idx > i
                   /\ \A j \in (i + 1)..Len(handlers) :
                          (/\ Outcome(j).kind = "response"
                           /\ \A k \in (i + 1)..(j - 1) : Declines(k))
                              => /\ result = Outcome(j)
                                 /\ idx = j

\* C2 happens in the instance resolver: the first entry raised
\* MethodNotAllowed and the second entry's response is the result.
C2_Witness ==
    /\ resolver = "instance" /\ pc = "done"
    /\ Len(handlers) = 2
    /\ Outcome(1).kind = "MethodNotAllowed"
    /\ Outcome(2).kind = "response"
    /\ result = Outcome(2)
    /\ last.idx = 2

\* The union of the allowed sets of the entries that raise MethodNotAllowed.
AllowedUnion ==
    UNION { Range(Outcome(i).allowed) :
                i \in { k \in 1..Len(handlers) : Outcome(k).kind = "MethodNotAllowed" } }

\* The search ran to the end of the list: every entry declined.
Exhausted == pc = "done" /\ \A i \in 1..Len(handlers) : Declines(i)

\* How an exhausted search ends when method-not-allowed is to be signalled
\* (mna), and when it is not.
ExhaustedAs(mna) ==
    /\ resolver = "Application" =>
           /\ result.kind = "response"
           /\ result.response.status = (IF mna THEN 405 ELSE 404)
    /\ resolver = "instance" =>
           IF mna
           THEN /\ result.kind = "MethodNotAllowed"
                /\ Range(result.allowed) = AllowedUnion
           ELSE result = ReturnNone

\* C3 as amended: when every entry has been tried and each declined, the
\* resolver signals method-not-allowed if and only if the union of the
\* allowed-method sets raised is non-empty, and plain not-found otherwise:
\* 405 versus 404 from the Application, MethodNotAllowed with the accumulated
\* set versus None from the instance resolver.
C3_ExhaustedSignal == Exhausted => ExhaustedAs(AllowedUnion # {})

\* C3 as stated: method-not-allowed if and only if at least one entry raised
\* MethodNotAllowed.
C3_AsStated ==
    Exhausted =>
        ExhaustedAs(\E i \in 1..Len(handlers) : Outcome(i).kind = "MethodNotAllowed")

\* C3 happens: one entry returned None, one raised MethodNotAllowed, and the
\* Application answers 405.
C3_Witness ==
    /\ Exhausted /\ resolver = "Application"
    /\ \E i \in 1..Len(handlers) : Outcome(i).kind = "None"
    /\ AllowedUnion # {}
    /\ result.response.status = 405

\* A list of method names is in sorted order and has no duplicates.
StrictlySorted(l) ==
    \A a, b \in 1..Len(l) : a < b => MethodRank(l[a]) < MethodRank(l[b])

\* The accepted-method sets of the resources whose route matches the path (an
\* object that raises MethodNotAllowed by itself counts with the set it
\* raises).
MatchedMethods ==
    UNION { IF module[k].kind = "custom"
            THEN (IF module[k].behaviour = "MethodNotAllowed" THEN {"PUT"} ELSE {})
            ELSE (IF route_data(module[k].bobo_route, path).ok
                  THEN module[k].bobo_methods ELSE {}) : k \in 1..Len(module) }

\* C4: when dispatch ends in method-not-allowed, the response has status 405
\* and one Allow header that lists, sorted and without duplicates, exactly
\* the accepted methods of the entries whose route matched; a POST to a
\* module whose only resource is a GET-only /x yields 405 with Allow: GET.
C4_AllowHeader ==
    (resolver = "Application" /\ pc = "done") =>
        /\ (Exhausted /\ AllowedUnion # {}) =>
               /\ result.kind = "response"
               /\ result.response.status = 405
               /\ Len(result.response.headerlist) = 1
               /\ result.response.headerlist[1][1] = "Allow"
               /\ StrictlySorted(result.response.headerlist[1][2])
               /\ Range(result.response.headerlist[1][2]) = MatchedMethods
        /\ (/\ Len(module) = 1 /\ module[1].kind = "handler"
            /\ module[1].bobo_route = P_x /\ module[1].bobo_methods = {"GET"}
            /\ path = P_x /\ method = "POST") =>
               /\ result.response.status = 405
               /\ result.response.headerlist = << << "Allow", << "GET" >> >> >>

\* C4 happens: a 405 whose Allow header lists two methods, from two entries.
C4_Witness ==
    /\ resolver = "Application" /\ Exhausted
    /\ result.response.status = 405
    /\ Len(handlers) = 2
    /\ result.response.headerlist = << << "Allow", << "GET", "POST" >> >> >>

\* The entry j of the handler list is the per-method table of route /x that
\* merges a GET-only and a POST-only handler.
IsGetPostGroup(j) ==
    /\ handlers[j].kind = "by_methods"
    /\ handlers[j].route = P_x
    /\ DOMAIN handlers[j].by_method = {"GET", "POST"}
    /\ handlers[j].by_method["GET"].bobo_methods = {"GET"}
    /\ handlers[j].by_method["POST"].bobo_methods = {"POST"}

\* The events of a call that invokes the handler node h and nothing else.
OnlyInvokes(h) == << Ev("try", h.id), Ev("call", h.func) >>

\* C5: for a GET-only and a POST-only handler on /x merged into one table, a
\* GET request to /x invokes only the GET handler, a POST request only the
\* POST handler, and a PUT request invokes neither and raises
\* MethodNotAllowed carrying exactly GET and POST.
C5_PerMethodGroup ==
    \A j \in 1..Len(handlers) :
        (IsGetPostGroup(j) /\ last.idx = j /\ path = P_x) =>
            /\ method = "GET" =>
                   /\ last.trace = OnlyInvokes(handlers[j].by_method["GET"])
                   /\ last.out.kind = "BoboException"
            /\ method = "POST" =>
                   /\ last.trace = OnlyInvokes(handlers[j].by_method["POST"])
                   /\ last.out.kind = "BoboException"
            /\ method = "PUT" =>
                   /\ last.trace = <<>>
                   /\ last.out.kind = "MethodNotAllowed"
                   /\ last.out.allowed = << "GET", "POST" >>

\* C5 happens: a PUT request to /x has been refused by the merged table.
C5_Witness ==
    /\ Len(handlers) = 1 /\ IsGetPostGroup(1)
    /\ last.idx = 1 /\ path = P_x /\ method = "PUT"
    /\ last.out.kind = "MethodNotAllowed"

\* ------------------------------------------- ordering keys in a scan (C6)

\* The most resources of a module whose resources pass order keys.
MaxOrdered == 3

OrderKinds == { "order", "early", "late" }
OrderedMethodSets == { {"GET"}, {"POST"} }
OrderedRequestMethods == { "GET", "POST" }

\* @bobo.resource(route, method=methods, order=bobo.early() or bobo.late() or
\* nothing) on a function.
ordered_resource(route, methods, kind) ==
    /\ pc = "define"
    /\ Len(module) < MaxOrdered
    /\ LET n == _order + 1
           name == ToString(n)
       IN  /\ _order' = n
           /\ module' = Append(module,
                  _Handler("n" \o name, route, "f" \o name, "text", methods,
                           "none", order_key(kind, n), <<>>))
    /\ UNCHANGED << compiled, previous, running >>
    /\ UNCHANGED << request, returned, reraise_exceptions >>
    /\ UNCHANGED << handlers, resolver, pc, request_vars >>

NextOrdered ==
    \/ \E route \in Routes, methods \in OrderedMethodSets, kind \in OrderKinds :
           ordered_resource(route, methods, kind)
    \/ Application_of_module(TRUE)
    \/ scan_class
    \/ /\ pc = "ready"       \* the first request after the scan
       /\ \E p \in Paths, m \in OrderedRequestMethods : Request(p, m, NoForm, FALSE)
    \/ Application_try_handler
    \/ Application_exhausted
    \/ instance_try_handler
    \/ instance_exhausted

SpecOrdered == Init /\ [][NextOrdered]_vars

\* The resource was registered with a late() key / with a default or an
\* early() key.
IsLate(r) == r.bobo_order > _late_base
IsEarlier(r) == r.bobo_order < _late_base

\* Where in the current request the resource's bobo_response was entered.
TriedAt(r) == { i \in DOMAIN trace : trace[i] = Ev("try", r.id) }

\* Every try of the resource d comes before every try of the resource l.
TriedBefore(d, l) == \A i \in TriedAt(d), j \in TriedAt(l) : i < j

\* A resource with a default or early key is registered on the route of l.
SharesRoute(l) ==
    \E e \in 1..Len(module) :
        IsEarlier(module[e]) /\ module[e].bobo_route = module[l].bobo_route

MaxCalls == 9

\* order(): the counter is incremented and returned.
order ==
    /\ pc = "define"
    /\ _order < MaxCalls
    /\ _order' = _order + 1
    /\ returned' = Append(returned,
           [fn |-> "order", value |-> order_key("order", _order + 1)])
    /\ UNCHANGED << compiled, previous, running >>
    /\ UNCHANGED << module, handlers, resolver, pc, request_vars, request,
                    reraise_exceptions >>

\* early(): order() + _early_base.
early ==
    /\ pc = "define"
    /\ _order < MaxCalls
    /\ _order' = _order + 1
    /\ returned' = Append(returned,
           [fn |-> "early", value |-> order_key("early", _order + 1)])
    /\ UNCHANGED << compiled, previous, running >>
    /\ UNCHANGED << module, handlers, resolver, pc, request_vars, request,
                    reraise_exceptions >>

\* late(): order() + _late_base.
late ==
    /\ pc = "define"
    /\ _order < MaxCalls
    /\ _order' = _order + 1
    /\ returned' = Append(returned,
           [fn |-> "late", value |-> order_key("late", _order + 1)])
    /\ UNCHANGED << compiled, previous, running >>
    /\ UNCHANGED << module, handlers, resolver, pc, request_vars, request,
                    reraise_exceptions >>

NextOrder == order \/ early \/ late

SpecOrder == Init /\ [][NextOrder]_vars

\* Every value fn returned is smaller than every value gn returned.
AllBelow(fn, gn) ==
    \A i, j \in DOMAIN returned :
        (returned[i].fn = fn /\ returned[j].fn = gn) =>
            returned[i].value < returned[j].value

\* C7: while fewer than _late_base calls of order(), early() and late() have
\* been made, each call returns a value strictly larger than every value the
\* same function returned before, every early() value is smaller than every
\* order() value, and every order() value is smaller than every late() value.
C7_OrderKeys ==
    Len(returned) < _late_base =>
        /\ \A i, j \in DOMAIN returned :
               (i < j /\ returned[i].fn = returned[j].fn) =>
                   returned[i].value < returned[j].value
        /\ AllBelow("early", "order")
        /\ AllBelow("order", "late")
        /\ AllBelow("early", "late")

\* C7 happens: each of the three functions has been called twice.
C7_Witness ==
    /\ Len(returned) < _late_base
    /\ \A fn \in OrderKinds :
           Cardinality({ i \in DOMAIN returned : returned[i].fn = fn }) >= 2

\* ---------------------------------------------- the parameter binder (C8, C9)

P_3 == << "/", "3" >>
T_3 == << "3" >>
T_5 == << "5" >>

\* The signatures of the decorated callables, the routes they are put on, and
\* the requests made.
ArgNames == { "a", "b" }
ArgLists == { << "a" >>, << "a", "b" >>, << "bobo_request", "b" >> }
BindRoutes == { R_a, P_3 }
FormValues == { << T_5 >>, << T_5, T_3 >> }
Forms == UNION { [D -> FormValues] : D \in SUBSET ArgNames }
ContentTypes == { "application/json", "application/x-www-form-urlencoded" }
JsonBodies == { [ok |-> FALSE, obj |-> <<>>],
                [ok |-> TRUE, obj |-> <<>>],
                [ok |-> TRUE, obj |-> ("b" :> "7")],
                [ok |-> TRUE, obj |-> ("a" :> "'7'" @@ "b" :> "None")] }
Requests == [params : Forms, content_type : ContentTypes, json : JsonBodies,
             environ : { {} }]

\* @bobo.post(route, check=check) on a function with the arguments args, of
\* which the first nrequired have no default.
post(route, args, nrequired, check) ==
    /\ pc = "define"
    /\ module = <<>>
    /\ LET n == _order + 1
           name == ToString(n)
       IN  /\ _order' = n
           /\ module' = << [_Handler("n" \o name, route, "f" \o name, "text",
                                     {"POST"}, check, n, <<>>)
                               EXCEPT !.params = "POST", !.args = args,
                                      !.nrequired = nrequired] >>
    /\ UNCHANGED << compiled, previous, running >>
    /\ UNCHANGED << request, returned, reraise_exceptions >>
    /\ UNCHANGED << handlers, resolver, pc, request_vars >>

NextBind ==
    \/ \E route \in BindRoutes, args \in ArgLists :
           \E nrequired \in 0..Len(args) :
               post(route, args, nrequired, "none")
    \/ Application_of_module(TRUE)
    \/ \E req \in Requests : Request(P_3, "POST", req, FALSE)
    \/ Application_try_handler
    \/ Application_exhausted

SpecBind == Init /\ [][NextBind]_vars

\* The callable, and whether the request has called it.
Bound == module[1]
IsCalled == \E i \in DOMAIN trace : trace[i] = Ev("call", Bound.func)

\* Where the request bound the argument name, and to what.
BoundAt(name) == { i \in DOMAIN trace : trace[i] = Ev("bind", name) }

\* The value the claim's precedence gives the argument name: << the value >>,
\* or <<>> when no source has one.
FromRoute == route_data(Bound.bobo_route, path).data
Resolved(name) ==
    IF name = "bobo_request" THEN << "request" >>
    ELSE IF name \in DOMAIN FromRoute THEN << py_str(FromRoute[name]) >>
    ELSE IF name \in DOMAIN request.params
    THEN << IF Len(request.params[name]) = 1 THEN py_str(request.params[name][1])
            ELSE py_list(request.params[name]) >>
    ELSE IF /\ request.content_type = "application/json"
            /\ name \in DOMAIN request.json.obj
    THEN << request.json.obj[name] >>
    ELSE <<>>

\* C8: when the binder calls the callable, every declared argument is passed
\* the route value if the route data has one for its name, otherwise the
\* form value(s) if there is at least one, otherwise (for an application/json
\* request) the value under its name in the JSON body, and is not passed at
\* all when no source has a value.
C8_BindingPrecedence ==
    (module # <<>> /\ Bound.params # "" /\ IsCalled) =>
        \A name \in Range(Bound.args) :
            IF Resolved(name) = <<>> THEN BoundAt(name) = {}
            ELSE /\ Cardinality(BoundAt(name)) = 1
                 /\ \A i \in BoundAt(name) :
                        trace[i + 1] = Ev("value", Resolved(name)[1])

\* C8 happens: route /:a, path /3 and the form value a=5 have bound a to '3'.
C8_Witness ==
    /\ module # <<>> /\ Bound.params # "" /\ IsCalled
    /\ Bound.bobo_route = R_a /\ path = P_3
    /\ "a" \in DOMAIN request.params /\ request.params["a"] = << T_5 >>
    /\ \E i \in BoundAt("a") : trace[i + 1] = Ev("value", "'3'")

\* The request has reached the binder of the callable: its route matched.
Reached ==
    /\ module # <<>> /\ Bound.params # ""
    /\ pc = "done" /\ last.idx = 1
    /\ route_data(Bound.bobo_route, path).ok

\* The declared arguments without a default, and those of them no source has
\* a value for.
Required ==
    { Bound.args[i] : i \in 1..Bound.nrequired } \ { "bobo_request" }
Unvalued == { name \in Required : Resolved(name) = <<>> }

\* What C9 says of a request that has reached the binder.
MissingSignal ==
    /\ last.out.kind = "MissingFormVariable" <=> Unvalued # {}
    /\ last.out.kind = "MissingFormVariable" =>
           /\ last.out.name \in Unvalued
           /\ ~IsCalled
           /\ result = Return(missing_form_variable(method, last.out.name))
           /\ result.response.status = 403
    /\ IsCalled =>
           \A name \in Range(Bound.args) \ Required :
               Resolved(name) = <<>> => BoundAt(name) = {}

MaxStack == 2

Checks == { "none", "pass", "deny" }
NodeMethodSets == { {"GET"}, {"POST"}, {NONE} }

RECURSIVE Depth(_)
\* How many nodes are stacked, the node h included.
Depth(h) == IF h.sub = <<>> THEN 1 ELSE 1 + Depth(h.sub[1])

\* @bobo.resource(route, method=methods, check=check) on a function, or on
\* the handler an earlier decorator has made of it: the new node is stacked
\* on that handler and keeps its bobo_original.
stacked_resource(route, methods, check) ==
    /\ pc = "define"
    /\ module # <<>> => Depth(module[1]) < MaxStack
    /\ LET n == _order + 1
           name == ToString(n)
       IN  /\ _order' = n
           /\ module' = << _Handler("n" \o name, route,
                                    IF module = <<>> THEN "f" \o name
                                    ELSE module[1].func,
                                    "text", methods, check, n, module) >>
    /\ UNCHANGED << compiled, previous, running >>
    /\ UNCHANGED << request, returned, reraise_exceptions >>
    /\ UNCHANGED << handlers, resolver, pc, request_vars >>

\* node.bobo_response(request, path, method) is called on the node.
node_bobo_response(p, m) ==
    /\ pc = "define"
    /\ module # <<>>
    /\ LET r == Handler_bobo_response(module[1], p, m) IN
       /\ result' = r.out
       /\ trace' = r.trace
       /\ compiled' = compiled \cup Cached(r.trace, module, p, m)
    /\ path' = p
    /\ method' = m
    /\ pc' = "done"
    /\ UNCHANGED << _order, module, handlers, resolver, idx, allowed, last,
                    request, returned, reraise_exceptions, previous, running >>

NextNode ==
    \/ \E route \in Routes, methods \in NodeMethodSets, check \in Checks :
           stacked_resource(route, methods, check)
    \/ \E p \in Paths, m \in RequestMethods : node_bobo_response(p, m)

SpecNode == Init /\ [][NextNode]_vars

\* bobo_response has been called on a node with a restricted method set.
NodeCalled ==
    /\ pc = "done" /\ resolver = "none" /\ module # <<>>
    /\ module[1].bobo_methods # {NONE}
NodeMatches == route_data(module[1].bobo_route, path).ok

\* The node refuses the method: it raises MethodNotAllowed with exactly its
\* own set, and neither its check nor the callable has been called.
Refuses ==
    /\ result.kind = "MethodNotAllowed"
    /\ Range(result.allowed) = module[1].bobo_methods
    /\ trace = << Ev("try", module[1].id) >>

\* C10 as stated: the node returns None when its route does not match,
\* whatever the method is, and refuses the method when its route matches
\* and the method is not in its set.
C10_AsStated ==
    NodeCalled =>
        /\ ~NodeMatches => result = ReturnNone
        /\ (NodeMatches /\ method \notin module[1].bobo_methods) => Refuses

\* C10 (amended): when its route does not match, the node returns None if it
\* is stacked on nothing, and otherwise ends as the bobo_response of the
\* handler it is stacked on ends; when its route matches and the method is
\* not in its set it refuses the method.
C10_NodeOutcomes ==
    NodeCalled =>
        /\ ~NodeMatches =>
               IF module[1].sub = <<>>
               THEN result = ReturnNone /\ trace = << Ev("try", module[1].id) >>
               ELSE Result(result, Tail(trace)) =
                        Handler_bobo_response(module[1].sub[1], path, method)
        /\ (NodeMatches /\ method \notin module[1].bobo_methods) => Refuses

\* C10 happens: a node stacked on another has refused a method.
C10_Witness ==
    /\ NodeCalled /\ NodeMatches
    /\ module[1].sub # <<>>
    /\ module[1].bobo_methods = {"GET"} /\ method = "POST"
    /\ result.kind = "MethodNotAllowed"

\* ------------------------------------------------------ the check (C11)

NextCheck ==
    \/ \E route \in BindRoutes, args \in ArgLists, check \in Checks :
           \E nrequired \in 0..Len(args) : post(route, args, nrequired, check)
    \/ Application_of_module(TRUE)
    \/ \E req \in Requests : Request(P_3, "POST", req, FALSE)
    \/ Application_try_handler
    \/ Application_exhausted

SpecCheck == Init /\ [][NextCheck]_vars

\* The request has matched the route and the method of a callable that has a
\* check.
Checked == Reached /\ Bound.check # "none"

\* Where the request called the check, and where it bound an argument or
\* called the callable.
CheckAt == { i \in DOMAIN trace : trace[i] = Ev("check", Bound.id) }
BindOrCallAt == { i \in DOMAIN trace : trace[i][1] \in { "bind", "call" } }

\* What C11 says of the check itself: it is called once, before any argument
\* is bound and before the callable; what it returns, when not None, is the
\* result, and then nothing is bound, the callable is not called and no
\* MissingFormVariable is raised.
CheckFirst ==
    /\ Cardinality(CheckAt) = 1
    /\ \A i \in CheckAt, j \in BindOrCallAt : i < j
    /\ Bound.check = "deny" =>
           /\ last.out = Return(ResponseOf("check"))
           /\ result = last.out
           /\ BindOrCallAt = {}

\* C11 as stated: the check is called once and first, its response is the
\* result, and when it returns None the callable is called.
C11_AsStated ==
    Checked => /\ CheckFirst
               /\ Bound.check = "pass" => IsCalled

\* C11 (amended): the check is called once and first and its response is the
\* result; when it returns None the binder runs, and the callable is called
\* unless the binder raises (MissingFormVariable for a required argument
\* without a value, or the error of reading the JSON body).
C11_CheckFirst ==
    Checked => /\ CheckFirst
               /\ Bound.check = "pass" =>
                      (IsCalled <=>
                           last.out.kind \notin { "MissingFormVariable", "raise" })

\* C11 happens: a check has answered a request that lacks a required
\* argument of the callable.
C11_Witness ==
    /\ Checked /\ Bound.check = "deny"
    /\ Unvalued # {}
    /\ result = Return(ResponseOf("check"))

\* ------------------------------------- exceptions and HEAD (C12, C13, C14)

\* How the bobo_response methods of the objects given to the Application end.
Signals == { "None", "response", "MethodNotAllowed", "NotFound",
             "BoboException", "BoboException_json", "BoboException_object",
             "MissingFormVariable", "Exception", "GeneratorExit",
             "KeyboardInterrupt", "SystemExit", "MemoryError" }
SignalMethods == { "GET", "HEAD" }
Environs == { {}, { "x-wsgiorg.throw_errors" } }

NextSignals ==
    \/ \E behaviour \in Signals : custom_resource(behaviour)
    \/ \E bobo_handle_exceptions \in BOOLEAN :
           Application_of_list(bobo_handle_exceptions)
    \/ \E m \in SignalMethods, environ \in Environs :
           Request(P_x, m, [NoForm EXCEPT !.environ = environ], FALSE)
    \/ Application_try_handler
    \/ Application_exhausted

SpecSignals == Init /\ [][NextSignals]_vars

\* Application.bobo_response has ended.
Ended == resolver = "Application" /\ pc = "done"

\* C12: when an entry raises BoboException, MissingFormVariable or NotFound,
\* Application.bobo_response ends at that entry: no later entry has been
\* invoked, and, whatever methods were collected before, the result is
\* build_response of the exception's data, the missing_form_variable
\* response for the name the exception carries, or the not_found response.
C12_SignalsEndSearch ==
    (Ended /\ last.idx > 0) =>
        /\ last.out.kind \in { "BoboException", "MissingFormVariable", "NotFound" }
               => idx = last.idx /\ NoLaterInvoked(last.idx)
        /\ last.out.kind = "BoboException" =>
               result = build_response(method, last.out)
        /\ last.out.kind = "MissingFormVariable" =>
               result = Return(missing_form_variable(method, last.out.name))
        /\ last.out.kind = "NotFound" => result = Return(not_found(path, method))

\* C12 happens: the first entry raised MethodNotAllowed, the second raised
\* NotFound, and the answer is 404.
C12_Witness ==
    /\ Ended /\ last.idx = 2
    /\ allowed # {}
    /\ last.out.kind = "NotFound"
    /\ result.kind = "response" /\ result.response.status = 404

\* An entry raised an exception that is none of BoboException,
\* MissingFormVariable, NotFound and MethodNotAllowed.
EntryRaised == Ended /\ last.idx > 0 /\ last.out.kind = "raise"

\* build_response raised while it rendered the BoboException of an entry.
RenderRaised ==
    /\ Ended /\ last.idx > 0 /\ last.out.kind = "BoboException"
    /\ build_response(method, last.out).kind = "raise"

Propagates(class) == result = Raise(class)
Handled == result = Return(exception(method))

SameData(m) ==
    IF idx > Len(handlers)
    THEN Return(IF allowed # {} THEN method_not_allowed(m, allowed)
                ELSE not_found(path, m))
    ELSE Application_except(last.out, path, m,
             reraise_exceptions \/ "x-wsgiorg.throw_errors" \in request.environ)

\* The Application built the response of a HEAD request itself.
BuiltForHead ==
    /\ Ended /\ method = "HEAD"
    /\ result.kind = "response"
    /\ (idx <= Len(handlers)) => last.out.kind # "response"

\* C14: the response the Application builds for a HEAD request, from what an
\* entry raised or for a default error, has no body, and has the status,
\* the header list and the content type of the response it builds from the
\* same data for another method.
C14_HeadSameHeaders ==
    BuiltForHead =>
        /\ result.response.body = NoBody
        /\ \A m \in SignalMethods \ { "HEAD" } :
               SameData(m).kind = "response" =>
                   LET other == SameData(m).response IN
                   /\ result.response.status = other.status
                   /\ result.response.headerlist = other.headerlist
                   /\ result.response.content_type = other.content_type

\* C14 happens: a HEAD request got the JSON response of an entry, with its
\* header and content type and without a body.
C14_Witness ==
    /\ BuiltForHead
    /\ last.out.kind = "BoboException"
    /\ result.response.content_type = "application/json"
    /\ result.response.headerlist # <<>>
    /\ result.response.body = NoBody

\* ------------------------------------------- the route matcher (C15, C16)

R_opt == << "/", "a", "/", ":", "x", "?" >>
P_a == << "/", "a" >>
P_a_ == << "/", "a", "/" >>
P_a_foo == << "/", "a", "/", "f", "o", "o" >>
T_foo == << "f", "o", "o" >>

\* The routes compiled, the strings put in the place of placeholders, and
\* further paths matched.
Patterns ==
    { R_opt,
      << "/", ":", "x", "/", ":", "y" >>,
      << "/", ":", "x", ".", "c", "/", "b" >>,
      << "/", "a", "/", ":", "x", "?", "/", ":", "y", "?" >>,
      << "/", ":", "x", "?", ".", "c", "/", ":", "y" >>,
      << "/", "a" >> }
Texts == { <<>>, T_3, T_5, T_foo, << "3", ".", "c" >>, << "3", "\n" >> }
MorePaths == { P_a, P_a_, P_a_foo, << "/", "a", "/", "/" >>, << "/", "b" >> }

RECURSIVE FillFrom(_, _, _)
\* The path made of the pieces pat[k..] of a route, k at a placeholder, with
\* the strings of the mapping a in the place of the placeholders; a
\* placeholder without a string is left out with its slash and extension.
FillFrom(pat, k, a) ==
    IF k > Len(pat) THEN <<>>
    ELSE LET raw == SubSeq(pat[k], 3, Len(pat[k]))
             name == Str(IF raw[Len(raw)] = "?"
                         THEN SubSeq(raw, 1, Len(raw) - 1) ELSE raw)
         IN  (IF name \in DOMAIN a THEN << "/" >> \o a[name] \o pat[k + 1]
              ELSE <<>>)
             \o pat[k + 2] \o FillFrom(pat, k + 3, a)

Fill(route, a) ==
    route_re_split(route, 1)[1] \o FillFrom(route_re_split(route, 1), 2, a)

Assignments(route) == [GroupNames(rpat(route)) -> Texts]

\* match = _compile_route(route): the matcher is kept.
compile_route(route) ==
    /\ pc = "define"
    /\ CompileOk(route)
    /\ handlers' = << [kind |-> "route_data", route |-> route] >>
    /\ pc' = "compiled"
    /\ UNCHANGED << compiled, previous, running >>
    /\ UNCHANGED << request, returned, reraise_exceptions >>
    /\ UNCHANGED << _order, module, resolver, request_vars >>

\* match(request, p) is called on the matcher kept.
call_route_data(p) ==
    /\ pc \in { "compiled", "matched" }
    /\ LET m == route_data(handlers[1].route, p) IN
       result' = [kind |-> "route_data", ok |-> m.ok, data |-> m.data]
    /\ path' = p
    /\ pc' = "matched"
    /\ UNCHANGED << compiled, previous, running >>
    /\ UNCHANGED << request, returned, reraise_exceptions >>
    /\ UNCHANGED << _order, module, handlers, resolver, method, idx, allowed,
                    last, trace >>

NextRoute ==
    \/ \E route \in Patterns : compile_route(route)
    \/ \E p \in MorePaths : call_route_data(p)
    \/ /\ pc # "define"
       /\ \E a \in Assignments(handlers[1].route) :
              call_route_data(Fill(handlers[1].route, a))

SpecRoute == Init /\ [][NextRoute]_vars

\* The matcher has been called, and has returned a mapping.
Matched == pc = "matched" /\ result.ok
Optionals(route) ==
    { rpat(route)[k].name :
          k \in { j \in 1..Len(rpat(route)) :
                      rpat(route)[j].type = "group" /\ rpat(route)[j].optional } }

\* What C15 says of /a/:x? and of the names in a mapping: the matcher maps
\* /a to the empty mapping and /a/foo to x = foo, and a mapping it returns
\* holds every placeholder that is not optional and gives each name in it
\* the text of its segment of the path.
SegmentsBound ==
    /\ (pc = "matched" /\ handlers[1].route = R_opt) =>
           /\ path = P_a => result.ok /\ result.data = <<>>
           /\ path = P_a_foo => result.ok /\ result.data = ("x" :> T_foo)
    /\ Matched =>
           /\ GroupNames(rpat(handlers[1].route)) \ Optionals(handlers[1].route)
                  \subseteq DOMAIN result.data
           /\ Fill(handlers[1].route, result.data) = path

\* C15 as stated: that, and no optional placeholder is mapped to the empty
\* string.
C15_AsStated ==
    /\ SegmentsBound
    /\ Matched => \A name \in Optionals(handlers[1].route) \cap DOMAIN result.data :
                      result.data[name] # <<>>

\* C15 (amended): that, and an optional placeholder is mapped to the empty
\* string only when the path has its slash (and extension) with nothing
\* after the slash; when its segment is left out of the path it is absent
\* from the mapping.
C15_OptionalPlaceholder ==
    /\ SegmentsBound
    /\ (Matched /\ handlers[1].route = R_opt) =>
           /\ "x" \in DOMAIN result.data <=> path # P_a
           /\ ("x" \in DOMAIN result.data /\ result.data["x"] = <<>>) <=> path = P_a_

\* C15 happens: /a/:x? has matched /a with the empty mapping.
C15_Witness ==
    /\ Matched /\ handlers[1].route = R_opt
    /\ path = P_a /\ result.data = <<>>

\* C16: for a route whose placeholder names are distinct and strings without
\* "/" given to all of them, the full matcher matches the path made by
\* putting the strings in the place of the placeholders, and returns exactly
\* those strings under those names.
C16_RoundTrip ==
    pc = "matched" =>
        \A a \in Assignments(handlers[1].route) :
            path = Fill(handlers[1].route, a) =>
                result.ok /\ result.data = a

\* C16 happens: /:x?.c/:y has given back x = 3.c, taken from /3.c.c, and the
\* empty string for y.
C16_Witness ==
    /\ Matched
    /\ handlers[1].route = << "/", ":", "x", "?", ".", "c", "/", ":", "y" >>
    /\ result.data = ("x" :> << "3", ".", "c" >> @@ "y" :> <<>>)

\* ------------------------------------------------------- subroutes (C17)

P_x_y == << "/", "x", "/", "y" >>
P_xy == << "/", "x", "y" >>

\* What the factory of a subroute returns: None, or a resource.
Factories ==
    { <<>>,
      << Custom("inner", "None") >>,
      << Custom("inner", "response") >>,
      << _Handler("inner", P_y, "g", "text", {"GET"}, "none", 0, <<>>) >>,
      << _Handler("inner", <<>>, "g", "text", {NONE}, "none", 0, <<>>) >> }
SubPaths == { P_x, P_y, P_x_y, P_xy }
SubMethods == { "GET", "POST" }

\* @bobo.subroute(route) on a resource factory.
subroute(route, factory) ==
    /\ pc = "define"
    /\ Len(module) < MaxResources
    /\ LET n == _order + 1
           name == ToString(n)
       IN  /\ _order' = n
           /\ module' = Append(module,
                  Subroute("n" \o name, route, "f" \o name, factory, n))
    /\ UNCHANGED << compiled, previous, running >>
    /\ UNCHANGED << request, returned, reraise_exceptions >>
    /\ UNCHANGED << handlers, resolver, pc, request_vars >>

NextSub ==
    \/ \E route \in Routes, factory \in Factories : subroute(route, factory)
    \/ resource(P_x_y, {"GET"}, "order", "text")
    \/ Application_of_list(TRUE)
    \/ Application_of_module(TRUE)
    \/ \E p \in SubPaths, m \in SubMethods : Request(p, m, NoForm, FALSE)
    \/ Application_try_handler
    \/ Application_exhausted

SpecSub == Init /\ [][NextSub]_vars

\* The ways to cut the path in a prefix the route of s matches as a whole and
\* the rest.
Cuts(s) ==
    { k \in 0..Len(path) : route_data(s.bobo_route, SubSeq(path, 1, k)).ok }

\* The entry the loop called last is the subroute s (alone in its entry).
LastSubroutes ==
    IF last.idx = 0 \/ resolver # "Application" THEN {}
    ELSE { s \in Range(module) :
               /\ s.kind = "subroute"
               /\ last.trace # <<>> /\ last.trace[1] = Ev("try", s.id) }

Resolves(s) ==
    { i \in DOMAIN last.trace : last.trace[i][1] = "resolve" }

\* C17: when the route of a subroute matches a prefix of the path, its
\* factory is called; the resource the factory returns is asked once, for
\* the request's method and a rest of the path that follows a prefix the
\* route matches, and how that ends is how the subroute ends; when the
\* factory returns None, or the resource returns None, the subroute returns
\* None and the loop of the Application goes on to the next entry.
C17_SubrouteDelegates ==
    \A s \in LastSubroutes :
        Cuts(s) # {} =>
            /\ Ev("call", s.func) \in Range(last.trace)
            /\ IF s.factory = <<>>
               THEN last.out = ReturnNone /\ Resolves(s) = {}
               ELSE /\ Cardinality(Resolves(s)) = 1
                    /\ \E k \in Cuts(s) :
                           /\ Ev("resolve", method \o " "
                                     \o Str(SubSeq(path, k + 1, Len(path))))
                                  \in Range(last.trace)
                           /\ last.out =
                                  Resource_bobo_response(s.factory[1],
                                      SubSeq(path, k + 1, Len(path)), method).out
            /\ last.out = ReturnNone =>
                   /\ idx = last.idx + 1
                   /\ pc = "loop" \/ idx > Len(handlers)

\* C17 happens: the subroute /:a matched /x of /x/y, its resource returned
\* None for the rest, and the next entry answered.
C17_Witness ==
    /\ Ended /\ Len(handlers) = 2 /\ idx = 2
    /\ handlers[1].kind = "subroute"
    /\ handlers[1].bobo_route = R_a /\ path = P_x_y
    /\ handlers[1].factory # <<>>
    /\ Ev("resolve", "GET /y") \in Range(trace)
    /\ Outcome(1).kind = "None"
    /\ result.kind = "response"

\* ----------------------------------------- stacked handlers, scanned (C18)

NextStack ==
    \/ \E route \in Routes, methods \in NodeMethodSets :
           stacked_resource(route, methods, "none")
    \/ \E p \in Paths, m \in RequestMethods : node_bobo_response(p, m)
    \/ Application_of_module(TRUE)
    \/ \E p \in Paths, m \in RequestMethods : Request(p, m, NoForm, FALSE)
    \/ Application_try_handler
    \/ Application_exhausted

SpecStack == Init /\ [][NextStack]_vars

\* The module holds a handler stacked on another; the request's path matches
\* the inner route and not the outer one, and its method is one of the inner
\* node's.
Outer == module[1]
Inner == module[1].sub[1]
ForInner ==
    /\ pc = "done"
    /\ module # <<>> /\ module[1].sub # <<>>
    /\ route_data(Inner.bobo_route, path).ok
    /\ ~route_data(Outer.bobo_route, path).ok
    /\ Inner.bobo_methods = {NONE} \/ method \in Inner.bobo_methods
AnsweredByInner ==
    /\ Ev("try", Inner.id) \in Range(trace)
    /\ Ev("call", Inner.func) \in Range(trace)
    /\ IF resolver = "none"
       THEN result = Handler_bobo_response(Inner, path, method).out
       ELSE result.kind = "response" /\ result.response.status = 200

\* C18: a request for the inner node of a stacked handler is answered by the
\* inner node, when bobo_response is called on the stacked handler and when
\* the handler was found by the scan of its module, whether the method is
\* one of the outer node's or not.
C18_StackedInnerAnswers == ForInner => AnsweredByInner

\* The part of C18 that holds: the inner node answers when bobo_response is
\* called on the stacked handler, and, in a scanned module, when the method
\* is one the outer node accepts.
C18_InnerThroughOuter ==
    (/\ ForInner
     /\ \/ resolver = "none"
        \/ Outer.bobo_methods = {NONE}
        \/ method \in Outer.bobo_methods)
        => AnsweredByInner

\* In a scanned module the inner node has answered a method that the outer
\* node accepts too.
C18_Witness ==
    /\ ForInner /\ resolver = "Application"
    /\ Outer.bobo_methods = {"POST"} /\ method = "POST"
    /\ AnsweredByInner

\* ------------------------------------- when a route is compiled (C19)

R_noslash == << "x" >>
R_a_a == << "/", ":", "a", "/", ":", "a" >>
CompileRoutes == { P_x, R_a, R_noslash, R_a_a }
CompileMethodSets == { {"GET"}, {NONE} }
CompileRequestMethods == { "GET", "POST" }

\* _handler(route, func): what every decorator calls.  A non-empty route
\* that does not start with "/" raises ValueError; no other route is looked
\* at, and the module gains a handler.
_handler(route, methods) ==
    /\ pc = "define"
    /\ Len(module) < MaxResources
    /\ IF route # <<>> /\ route[1] # "/"
       THEN /\ result' = Raise("ValueError")
            /\ pc' = "raised"
            /\ UNCHANGED << _order, module >>
       ELSE /\ LET n == _order + 1
                   name == ToString(n)
               IN  /\ _order' = n
                   /\ module' = Append(module,
                          _Handler("n" \o name, route, "f" \o name, "text",
                                   methods, "none", n, <<>>))
            /\ UNCHANGED << pc, result >>
    /\ UNCHANGED << compiled, previous, running >>
    /\ UNCHANGED << request, returned, reraise_exceptions >>
    /\ UNCHANGED << handlers, resolver, path, method, idx, allowed, last, trace >>

\* reroute(route, module[k]): resource.bobo_reroute(route) makes a new node
\* of the same class for the same callable, with the next order; the route
\* is not looked at.
bobo_reroute(k, route) ==
    /\ pc = "define"
    /\ Len(module) < MaxResources
    /\ k \in 1..Len(module)
    /\ module[k].kind # "custom"
    /\ LET n == _order + 1
           name == ToString(n)
       IN  /\ _order' = n
           /\ module' = Append(module,
                  [module[k] EXCEPT !.id = "n" \o name, !.bobo_route = route,
                                    !.bobo_order = n, !.sub = <<>>])
    /\ UNCHANGED << compiled, previous, running >>
    /\ UNCHANGED << request, returned, reraise_exceptions >>
    /\ UNCHANGED << handlers, resolver, pc, request_vars >>

NextCompile ==
    \/ \E route \in CompileRoutes, methods \in CompileMethodSets :
           _handler(route, methods)
    \/ \E route \in CompileRoutes :
           subroute(route, << Custom("inner", "response") >>)
    \/ \E k \in 1..MaxResources, route \in CompileRoutes : bobo_reroute(k, route)
    \/ Application_of_list(TRUE)
    \/ Application_of_module(TRUE)
    \/ \E p \in Paths, m \in CompileRequestMethods, again \in BOOLEAN :
           Request(p, m, NoForm, again)
    \/ Application_try_handler
    \/ Application_exhausted

SpecCompile == Init /\ [][NextCompile]_vars

\* The entry the loop called last ended in the error of compiling the route
\* of a node of the module.
CompileErrorInRequest ==
    /\ resolver = "Application" /\ last.idx > 0
    /\ last.out.kind = "raise"
    /\ \E h \in Range(module) :
           /\ h.kind # "custom"
           /\ ~CompileOk(h.bobo_route)
           /\ last.trace[Len(last.trace)] = Ev("try", h.id)

\* C19: a route that does not compile fails when its handler is registered
\* or when the Application is constructed: no request ends in the error of
\* compiling a route.
C19_CompiledBeforeRequests == ~CompileErrorInRequest

\* ------------------------------------------ the same request twice (C20)

\* Application.bobo_response has ended for a request that is the same as the
\* one before it.
Repeated == Ended /\ previous # <<>>

\* C20: when the same request, with the same path and method, is resolved
\* twice in a row by one Application, the second resolution ends as the
\* first did: the same response, or the same exception; also when the
\* first of the two compiled the routes of the nodes it tried.
C20_SameOutcomeTwice == Repeated => result = previous[1]

\* C20 happens: the second of two equal requests has been answered, as the
\* first was, by the first entry, a node whose matcher is in the cache.
C20_Witness ==
    /\ Repeated /\ result = previous[1]
    /\ Len(handlers) = 2 /\ last.idx = 1
    /\ handlers[1].kind = "handler"
    /\ handlers[1].id \in compiled
    /\ compiled = Cached(trace, handlers, path, method)
    /\ result.kind = "response" /\ result.response.status = 200

\* ------------------------------------ what a request leaves behind (C21)

\* An Application, or the resolver of a class, has been built: every step
\* from here on is a step of handling a request.
Serving == resolver # "none" /\ pc \in { "ready", "loop", "done" }

\* What is built before the first request: the handler list with its nodes
\* and method tables, the module's resources, the counter and the flag.
Built == << handlers, module, _order, resolver, reraise_exceptions >>

\* The nodes of the handler list the step has entered.
EnteredInStep ==
    { n \in UNION { Nodes(handlers[i]) : i \in DOMAIN handlers } :
          Ev("try", n.id) \in Range(last'.trace) }

subroute_order(route, factory, kind) ==
    /\ pc = "define"
    /\ Len(module) < MaxResources
    /\ LET n == IF kind = "order" THEN _order + 1 ELSE _order + 2
           name == ToString(n)
       IN  /\ _order' = n
           /\ module' = Append(module,
                  Subroute("n" \o name, route, "f" \o name, factory, n)
                      @@ [order_arg |-> kind])
    /\ UNCHANGED << compiled, previous, running >>
    /\ UNCHANGED << request, returned, reraise_exceptions >>
    /\ UNCHANGED << handlers, resolver, pc, request_vars >>

\* What the factory of such a subroute returns: None, or a resource.
OrderFactories == { <<>>, << Custom("inner", "response") >> }

NextSubOrder ==
    \/ \E route \in Routes, factory \in OrderFactories, kind \in OrderKinds :
           subroute_order(route, factory, kind)
    \/ \E route \in Routes : resource(route, {NONE}, "order", "text")
    \/ Application_of_module(TRUE)
    \/ \E p \in Paths, m \in SubMethods : Request(p, m, NoForm, FALSE)
    \/ Application_try_handler
    \/ Application_exhausted

SpecSubOrder == Init /\ [][NextSubOrder]_vars

\* The subroutes of the module made with the order argument kind.
SubroutesGiven(kind) ==
    { s \in Range(module) : s.kind = "subroute" /\ s.order_arg = kind }

\* The resources of the module with a default key.
DefaultKeyed ==
    { d \in Range(module) : d.kind = "handler" /\ ~IsLate(d) /\ d.bobo_order > 0 }

\* C22: a subroute made with order=late() has a key above _late_base and one
\* made with order=early() a key below zero; in an Application that scans
\* the module, a subroute given late() is entered after every default-keyed
\* resource entered in the same request, and one given early() before.
C22_SubrouteOrderKept ==
    /\ \A s \in SubroutesGiven("late") : IsLate(s)
    /\ \A s \in SubroutesGiven("early") : s.bobo_order < 0
    /\ resolver = "Application" =>
           /\ \A s \in SubroutesGiven("late"), d \in DefaultKeyed :
                  TriedBefore(d, s)
           /\ \A s \in SubroutesGiven("early"), d \in DefaultKeyed :
                  TriedBefore(s, d)

\* What happens instead: a subroute /:a given late() and defined before the
\* resource /x has answered the request for /x, which the resource never saw.
C22_LateSubrouteAnswersFirst ==
    /\ Ended /\ Len(module) = 2
    /\ module[1] \in SubroutesGiven("late") /\ module[2] \in DefaultKeyed
    /\ path = P_x /\ module[2].bobo_route = P_x
    /\ Ev("try", module[2].id) \notin Range(trace)
    /\ result.kind = "response"

\* ------------------------------------------ resources([...]) (C23)

\* resources([r1, r2, ...]): a _MultiResource of the bobo_response methods
\* of the resources, in the order given.
resources_of_list ==
    /\ pc = "define"
    /\ handlers' = module
    /\ resolver' = "resources"
    /\ pc' = "ready"
    /\ UNCHANGED << compiled, previous, running >>
    /\ UNCHANGED << request, returned, reraise_exceptions >>
    /\ UNCHANGED << _order, module, request_vars >>

\* _MultiResource(_scan_module(name)), which resources and preroute make of
\* a module name: the entries are those of the scan, or the scan raises the
\* error of a route that does not compile.
resources_of_module ==
    /\ pc = "define"
    /\ IF scan_compiles(_scan_module(module))
       THEN /\ handlers' = _scan_module(module)
            /\ resolver' = "resources"
            /\ pc' = "ready"
            /\ UNCHANGED result
       ELSE /\ result' = Raise("Exception")
            /\ pc' = "raised"
            /\ UNCHANGED << handlers, resolver >>
    /\ UNCHANGED << compiled, previous, running >>
    /\ UNCHANGED << request, returned, reraise_exceptions >>
    /\ UNCHANGED << _order, module, path, method, idx, allowed, last, trace >>

\* One pass of the for loop of _MultiResource.bobo_response: the entry is
\* called; a result that is not None is returned, and whatever the entry
\* raises, MethodNotAllowed too, leaves the loop.
MultiResource_try_handler ==
    /\ pc = "loop"
    /\ resolver = "resources"
    /\ idx <= Len(handlers)
    /\ LET r == handler_call(handlers[idx], path, method) IN
       /\ trace' = trace \o r.trace
       /\ compiled' = compiled \cup Cached(r.trace, handlers, path, method)
       /\ last' = [idx |-> idx, out |-> r.out, trace |-> r.trace]
       /\ IF r.out.kind = "None"
          THEN /\ idx' = idx + 1
               /\ UNCHANGED << pc, result >>
          ELSE /\ result' = r.out
               /\ pc' = "done"
               /\ UNCHANGED idx
    /\ UNCHANGED << allowed, previous, running >>
    /\ UNCHANGED << request, returned, reraise_exceptions >>
    /\ UNCHANGED << _order, module, handlers, resolver, path, method >>

\* After the loop of _MultiResource.bobo_response: the method returns None.
MultiResource_exhausted ==
    /\ pc = "loop"
    /\ resolver = "resources"
    /\ idx > Len(handlers)
    /\ result' = ReturnNone
    /\ pc' = "done"
    /\ UNCHANGED << compiled, previous, running >>
    /\ UNCHANGED << request, returned, reraise_exceptions >>
    /\ UNCHANGED << _order, module, handlers, resolver, path, method, idx,
                    allowed, last, trace >>

NextResources ==
    \/ \E route \in Routes, methods \in MethodSets :
           resource(route, methods, "order", "text")
    \/ \E behaviour \in Behaviours : custom_resource(behaviour)
    \/ resources_of_list
    \/ resources_of_module
    \/ \E p \in Paths, m \in RequestMethods : Request(p, m, NoForm, FALSE)
    \/ MultiResource_try_handler
    \/ MultiResource_exhausted

SpecResources == Init /\ [][NextResources]_vars

\* The bobo_response of the resource resources([...]) returns has ended.
MultiEnded == resolver = "resources" /\ pc = "done"

\* The entries that answer the request when asked on their own, every entry
\* before them returning None or raising MethodNotAllowed.
FirstAccepting ==
    { j \in 1..Len(handlers) :
          /\ Outcome(j).kind = "response"
          /\ \A i \in 1..(j - 1) : Declines(i) }

\* C23: the resource resources([...]) returns (and the one preroute makes of
\* a module) answers with the response of the first entry that gives one,
\* the entries before it returning None or raising MethodNotAllowed: an
\* entry that raises MethodNotAllowed does not keep a later entry from
\* answering.
C23_LaterEntryAnswers ==
    MultiEnded => \A j \in FirstAccepting : result = Outcome(j) /\ last.idx = j

\* What happens instead: the first entry raised MethodNotAllowed, the call
\* ended with it, and the second entry, which answers the request, was
\* never called.
C23_MethodNotAllowedEndsLoop ==
    /\ MultiEnded /\ Len(handlers) = 2
    /\ FirstAccepting = {2}
    /\ result.kind = "MethodNotAllowed" /\ last.idx = 1

\* ------------------------------ two handlers for one route and method (C24)

\* Handlers of a module or class, scanned into method tables.
NextTable ==
    \/ \E route \in Routes, methods \in MethodSets :
           resource(route, methods, "order", "text")
    \/ Application_of_module(TRUE)
    \/ scan_class
    \/ \E p \in Paths, m \in RequestMethods : Request(p, m, NoForm, FALSE)
    \/ Application_try_handler
    \/ Application_exhausted
    \/ instance_try_handler
    \/ instance_exhausted

SpecTable == Init /\ [][NextTable]_vars

\* The handler list is the one a scan has made of the module or class.
Scanned ==
    /\ resolver \in { "Application", "instance" }
    /\ handlers = _scan_module(module)

\* The pairs (d, l) of handlers of the module on one route, d with the
\* smaller key.
SameRoute ==
    { dl \in Range(module) \X Range(module) :
          /\ dl[1].kind = "handler" /\ dl[2].kind = "handler"
          /\ dl[1].bobo_route = dl[2].bobo_route
          /\ scan_order(dl[1]) < scan_order(dl[2]) }

\* The node accepts the method: it is one of its methods, or it has none.
Accepts(h, m) == h.bobo_methods = {NONE} \/ m \in h.bobo_methods

\* The nodes are registered under one key of the method table that the
\* request's method can select: both list the method, or both list no
\* method.
SameKey(d, l, m) ==
    \/ m \in d.bobo_methods /\ m \in l.bobo_methods
    \/ d.bobo_methods = {NONE} /\ l.bobo_methods = {NONE}

Entered(h) == Ev("try", h.id) \in Range(trace)

\* C24 as stated: of two handlers on one route that both accept the request's
\* method, the one with the larger key is never entered.
C24_AsStated ==
    Scanned =>
        \A dl \in SameRoute :
            Accepts(dl[1], method) /\ Accepts(dl[2], method) => ~Entered(dl[2])

\* C24: of two handlers on one route that a scan finds registered for the
\* same method (both list the request's method, or both are any-method
\* handlers), the one with the larger key is never entered for a request
\* with that method, also when the first returns None and the search goes
\* on; and the scan that finds them raises no error.
C24_FirstRegisteredWins ==
    /\ (SameRoute # {} /\ pc # "define") => pc # "raised"
    /\ Scanned =>
           \A dl \in SameRoute :
               SameKey(dl[1], dl[2], method) => ~Entered(dl[2])

\* C24 happens: two handlers for GET on /x were scanned, a GET request for
\* /y entered the first, which returned None, and the search ended in not
\* found without entering the second.
C24_Witness ==
    /\ Scanned /\ pc = "done" /\ resolver = "Application"
    /\ Len(module) = 2 /\ << module[1], module[2] >> \in SameRoute
    /\ module[1].bobo_methods = {"GET"} /\ module[2].bobo_methods = {"GET"}
    /\ method = "GET" /\ path = P_y /\ module[1].bobo_route = P_x
    /\ Entered(module[1]) /\ ~Entered(module[2])
    /\ last.out = ReturnNone
    /\ result = Return(not_found(path, method))

\* ------------------------------------- dispatch inside a group (C25)

\* The entry the loop called last is the method table of a route.
LastGroup == handlers[last.idx]
GroupCalled ==
    /\ resolver \in { "Application", "instance" }
    /\ last.idx > 0 /\ LastGroup.kind = "by_methods"

\* The last call went to the handler h of the table and to no other, and
\* ended as h ends.
DispatchedTo(h) ==
    /\ last.trace # <<>> /\ last.trace[1] = Ev("try", h.id)
    /\ \A i \in DOMAIN last.trace :
           last.trace[i][1] = "try" => last.trace[i][2] = h.id
    /\ last.out = Handler_bobo_response(h, path, method).out

\* C25: a method table called for a request dispatches to the handler under
\* the request's method if it has one, whatever the keys of its handlers
\* are; if not, to the handler under None if it has one; if it has neither,
\* it enters no handler, and raises MethodNotAllowed with the table's
\* methods when its route matches the path and returns None when not.
C25_GroupDispatch ==
    GroupCalled =>
        LET by_method == LastGroup.by_method IN
        IF method \in DOMAIN by_method THEN DispatchedTo(by_method[method])
        ELSE IF NONE \in DOMAIN by_method THEN DispatchedTo(by_method[NONE])
        ELSE /\ last.trace = <<>>
             /\ last.out = IF route_data(LastGroup.route, path).ok
                            THEN MethodNotAllowed(DOMAIN by_method)
                            ELSE ReturnNone

\* C25 happens: the table of /x holds an any-method handler with key 1 and a
\* GET handler with key 2, and a GET request was answered by the GET
\* handler.
C25_Witness ==
    /\ GroupCalled /\ pc = "done"
    /\ DOMAIN LastGroup.by_method = { NONE, "GET" }
    /\ LastGroup.by_method[NONE].bobo_order < LastGroup.by_method["GET"].bobo_order
    /\ method = "GET" /\ path = P_x /\ LastGroup.route = P_x
    /\ trace = << Ev("try", LastGroup.by_method["GET"].id),
                  Ev("call", LastGroup.by_method["GET"].func) >>

\* ------------------------------- what a callable returns (C26, C27)

\* What the callables return, with the content types of their nodes.
Returns ==
    { << "response", _default_content_type >>,
      << "text", _default_content_type >>,
      << "None", _default_content_type >>,
      << "None", "application/json" >>,
      << "object", _default_content_type >>,
      << "object", "application/json" >> }
ReturnMethods == { "GET", "HEAD" }

\* The resource the factory of the subroute of this section returns: a node
\* for the empty rest of the path whose callable returns None.
InnerNone == _Handler("inner", <<>>, "g", "None", {NONE}, "none", 0, <<>>)

\* @bobo.resource(route, content_type=...) on a function that returns a
\* response object, a string, None or another object.
resource_returning(route, returns, content_type) ==
    /\ pc = "define"
    /\ Len(module) < MaxResources
    /\ LET n == _order + 1
           name == ToString(n)
       IN  /\ _order' = n
           /\ module' = Append(module,
                  [_Handler("n" \o name, route, "f" \o name, returns, {NONE},
                            "none", n, <<>>)
                   EXCEPT !.content_type = content_type])
    /\ UNCHANGED << compiled, previous, running >>
    /\ UNCHANGED << request, returned, reraise_exceptions >>
    /\ UNCHANGED << handlers, resolver, pc, request_vars >>

NextReturn ==
    \/ \E returns \in Returns : resource_returning(P_x, returns[1], returns[2])
    \/ custom_resource("response")
    \/ subroute(P_x, << InnerNone >>)
    \/ \E bobo_handle_exceptions \in BOOLEAN :
           Application_of_list(bobo_handle_exceptions)
    \/ Application_of_module(TRUE)
    \/ scan_class
    \/ \E p \in Paths, m \in ReturnMethods : Request(p, m, NoForm, FALSE)
    \/ Application_try_handler
    \/ Application_exhausted
    \/ instance_try_handler
    \/ instance_exhausted

SpecReturn == Init /\ [][NextReturn]_vars

\* The handler nodes a request can reach: those of the module, and those the
\* factories of its subroutes return.
Reachable ==
    UNION { IF r.kind = "subroute"
            THEN { r.factory[i] : i \in DOMAIN r.factory }
            ELSE IF r.kind = "handler" THEN {r} ELSE {} : r \in Range(module) }

\* The nodes whose callable the last call of an entry has called.
CalledInLast ==
    { h \in Reachable :
          h.kind = "handler" /\ Ev("call", h.func) \in Range(last.trace) }

\* The value the callable of h has returned, as the exception that carries
\* it: status 200, the raw value, the node's content type, no headers.
Carried(h) ==
    [kind |-> "BoboException", status |-> 200,
     body |-> [type |-> IF h.returns = "text" THEN "text" ELSE h.returns,
               val |-> IF h.returns = "None" THEN <<>> ELSE << h.func >>],
     content_type |-> h.content_type, headers |-> <<>>]

\* C26: when the callable of a matched node has returned a response object,
\* the entry returns that object; when it has returned anything else, None
\* too, the entry does not return None: it ends in the exception carrying
\* status 200, the node's content type and the raw value, whatever
\* resolvers enclose the node (a method table, a subroute, the resolver of
\* a class); the loop ends at that entry, and the Application renders the
\* exception with build_response.
C26_ReturnedValue ==
    \A h \in CalledInLast :
        IF h.returns = "response"
        THEN last.out = Return(ResponseOf(h.func)) /\ result = last.out
        ELSE /\ last.out = Carried(h)
             /\ pc = "done" /\ idx = last.idx
             /\ result = IF resolver = "Application"
                          THEN build_response(method, Carried(h))
                          ELSE Carried(h)

\* C26 happens: the callable of the node a subroute resolved to returned
\* None, the request ended there with the rendering of the None body, and
\* the second entry, which gives a response, was not called.
C26_Witness ==
    /\ Ended /\ Len(handlers) = 2 /\ last.idx = 1
    /\ handlers[1].kind = "subroute" /\ handlers[2].kind = "custom"
    /\ CalledInLast = { InnerNone }
    /\ last.out = Carried(InnerNone)
    /\ result = build_response(method, Carried(InnerNone))

\* An entry has ended in a BoboException whose body build_response cannot
\* serialise: not text, not bytes, and a content type that is not JSON.
Unserialisable ==
    /\ Ended /\ last.idx > 0
    /\ last.out.kind = "BoboException"
    /\ last.out.body.type \notin { "text", "bytes" }
    /\ ~_json_content_type(last.out.content_type)

\* C27: when a handler returns a payload that is neither text nor bytes for
\* a content type that is not JSON, and the method is not HEAD, the
\* Application's bobo_response raises TypeError: the result is neither a
\* response nor the response of the exception hook, with the
\* exception-catching flag enabled and with it disabled.
C27_TypeErrorPropagates ==
    (Unserialisable /\ method # "HEAD") => result = Raise("TypeError")

\* C27 happens: with the flag enabled, the callable of a node returned an
\* object for the default content type and the request ended in TypeError.
C27_Witness ==
    /\ Unserialisable /\ method = "GET" /\ ~reraise_exceptions
    /\ \E h \in CalledInLast : h.returns = "object"
    /\ result = Raise("TypeError")

\* ------------------------------- the counter under threads (C28)

\* The most calls of order(), early() and late() that threads start.
MaxRaced == 4

\* The calls started so far: those that returned and those in progress.
Started ==
    Len(returned) + Cardinality({ t \in Threads : running[t].at # "idle" })

\* A thread calls fn (order, or early or late, which call order()); seen is
\* the number of calls that have returned by then.
order_enter(t, fn) ==
    /\ pc = "define"
    /\ running[t].at = "idle"
    /\ Started < MaxRaced
    /\ running' = [running EXCEPT
                      ![t] = [at |-> "entered", fn |-> fn, loaded |-> 0,
                              seen |-> Len(returned)]]
    /\ UNCHANGED << compiled, previous >>
    /\ UNCHANGED << _order, returned >>
    /\ UNCHANGED << module, handlers, resolver, pc, request_vars, request,
                    reraise_exceptions >>

\* _order += 1, first half: the thread reads the global.
order_load(t) ==
    /\ running[t].at = "entered"
    /\ running' = [running EXCEPT ![t].at = "loaded", ![t].loaded = _order]
    /\ UNCHANGED << compiled, previous >>
    /\ UNCHANGED << _order, returned >>
    /\ UNCHANGED << module, handlers, resolver, pc, request_vars, request,
                    reraise_exceptions >>

\* _order += 1, second half: the thread adds one to what it read and writes
\* the global.
order_store(t) ==
    /\ running[t].at = "loaded"
    /\ _order' = running[t].loaded + 1
    /\ running' = [running EXCEPT ![t].at = "stored"]
    /\ UNCHANGED << compiled, previous >>
    /\ UNCHANGED returned
    /\ UNCHANGED << module, handlers, resolver, pc, request_vars, request,
                    reraise_exceptions >>

\* return _order: the thread reads the global again and returns it (plus
\* _early_base or _late_base in early() and late()); counter is the counter
\* value the call received.
order_return(t) ==
    /\ running[t].at = "stored"
    /\ returned' = Append(returned,
           [fn |-> running[t].fn, value |-> order_key(running[t].fn, _order),
            counter |-> _order, seen |-> running[t].seen])
    /\ running' = [running EXCEPT ![t] = Idle]
    /\ UNCHANGED << compiled, previous >>
    /\ UNCHANGED _order
    /\ UNCHANGED << module, handlers, resolver, pc, request_vars, request,
                    reraise_exceptions >>

NextRace ==
    \/ \E t \in Threads, fn \in OrderKinds : order_enter(t, fn)
    \/ \E t \in Threads : order_load(t)
    \/ \E t \in Threads : order_store(t)
    \/ \E t \in Threads : order_return(t)

SpecRace == Init /\ [][NextRace]_vars

\* C28: under every interleaving of the threads' steps, no two calls of
\* order(), early() and late() receive the same counter value, and a call
\* receives a larger value than every call that had returned when it
\* started.
C28_DistinctAndIncreasing ==
    /\ \A i, j \in DOMAIN returned :
           i # j => returned[i].counter # returned[j].counter
    /\ \A j \in DOMAIN returned :
           \A i \in 1..returned[j].seen :
               returned[i].counter < returned[j].counter

\* What happens instead: two threads read the counter before either wrote
\* it, and both calls received 1.
C28_SameValueTwice ==
    /\ Len(returned) = 2
    /\ returned[1].counter = 1 /\ returned[2].counter = 1

\* And: a thread that read the counter early wrote it late, over a larger
\* value, so that a call started after another had returned received a
\* smaller value than that one.
C28_SmallerAfterReturned ==
    \E j \in DOMAIN returned, i \in DOMAIN returned :
        /\ i <= returned[j].seen
        /\ returned[j].counter < returned[i].counter

\* ------------------------------- what grouping by route loses (C29)

GroupMethodSets == { {"GET"}, {NONE} }

NextGroup ==
    \/ \E route \in Routes, methods \in GroupMethodSets :
           resource(route, methods, "order", "response")
    \/ \E route \in Routes :
           subroute(route, << Custom("inner", "response") >>)
    \/ Application_of_module(TRUE)
    \/ \E p \in SubPaths, m \in SubMethods : Request(p, m, NoForm, FALSE)
    \/ Application_try_handler
    \/ Application_exhausted

SpecGroup == Init /\ [][NextGroup]_vars

\* The resources of the module that return a response when they are asked
\* on their own for the request.
AnswerAlone ==
    { r \in Range(module) :
          Resource_bobo_response(r, path, method).out.kind = "response" }

\* C29: when an Application that scanned the module has answered a request
\* that some resource of the module answers on its own, the answer is
\* neither not found nor method not allowed.
C29_GroupingLosesNoMatch ==
    (Ended /\ AnswerAlone # {}) =>
        /\ result.kind = "response"
        /\ result.response.status \notin { 404, 405 }

\* What happens instead: a subroute on /x and a GET handler on /x share a
\* method table, the GET request for /x/y went to the handler, whose route
\* does not match, and ended in not found; the subroute, which answers it,
\* was never entered.
C29_SubrouteShadowed ==
    /\ Ended /\ Len(module) = 2
    /\ module[1].kind = "subroute" /\ module[2].kind = "handler"
    /\ module[1].bobo_route = P_x /\ module[2].bobo_route = P_x
    /\ path = P_x_y /\ method = "GET"
    /\ module[1] \in AnswerAlone
    /\ trace = << Ev("try", module[2].id) >>
    /\ result = Return(not_found(path, method))

\* ------------------------------- where a partial match ends (C30)

\* The routes compiled with partial=True, and the paths they are asked for:
\* a first part followed by what may come after it.
PartialRoutes ==
    { <<>>, P_a, P_a_, R_a, R_opt,
      << "/", ":", "x", ".", "c" >>,
      << "/", "a", "/", ":", "x" >> }
Heads == { P_a, P_x, << "/", "3", ".", "c" >>, << "/", "a", "/", "3" >> }
Tails == { <<>>, << "/" >>, << "b" >>, << "/", "y" >>, << ".", "c" >> }
PartialPaths == { h \o t : h \in Heads, t \in Tails }

\* match = _compile_route(route, True): the partial matcher is kept.
compile_route_partial(route) ==
    /\ pc = "define"
    /\ CompileOk(route)
    /\ handlers' = << [kind |-> "partial_route_data", route |-> route] >>
    /\ pc' = "compiled"
    /\ UNCHANGED << compiled, previous, running >>
    /\ UNCHANGED << request, returned, reraise_exceptions >>
    /\ UNCHANGED << _order, module, resolver, request_vars >>

\* match(request, p) is called on the partial matcher kept: None, or the
\* mapping and the rest of the path.
call_partial_route_data(p) ==
    /\ pc \in { "compiled", "matched" }
    /\ LET m == partial_route_data(handlers[1].route, p) IN
       result' = [kind |-> "partial_route_data", ok |-> m.ok, data |-> m.data,
                  path |-> m.path]
    /\ path' = p
    /\ pc' = "matched"
    /\ UNCHANGED << compiled, previous, running >>
    /\ UNCHANGED << request, returned, reraise_exceptions >>
    /\ UNCHANGED << _order, module, handlers, resolver, method, idx, allowed,
                    last, trace >>

NextPartial ==
    \/ \E route \in PartialRoutes : compile_route_partial(route)
    \/ \E p \in PartialPaths : call_partial_route_data(p)

SpecPartial == Init /\ [][NextPartial]_vars

\* The partial matcher has accepted the path.
PartialMatched == pc = "matched" /\ result.ok

\* The rest the matcher returned is what follows a prefix of the path.
RestIsSuffix ==
    /\ Len(result.path) <= Len(path)
    /\ result.path = SubSeq(path, Len(path) - Len(result.path) + 1, Len(path))

\* C30: for every path the partial matcher accepts, the rest it returns is
\* what follows the matched prefix, and the rest is empty or begins with
\* "/": the match ends where a segment of the path ends.
C30_SegmentBoundary ==
    PartialMatched =>
        /\ RestIsSuffix
        /\ result.path = <<>> \/ result.path[1] = "/"

\* What happens instead: the partial matcher of /a has accepted /ab and
\* returned the rest b.
C30_MidSegment ==
    /\ PartialMatched /\ RestIsSuffix
    /\ handlers[1].route = P_a /\ path = << "/", "a", "b" >>
    /\ result.path = << "b" >>

====
